---------------------------- MODULE Spec2Model ----------------------------
(***************************************************************************)
(* Offline trace analysis of the krace data-race detector.                 *)
(*                                                                         *)
(* Two analyzers consume the same ledger of records:                       *)
(*   - VizRuntime   (script/dart_viz.py): units, points, typed edges and a *)
(*     memoised happens-before search;                                     *)
(*   - ExecAnalyzer (script/dart.py): per-task unit with cloned            *)
(*     dependencies.                                                       *)
(* A behaviour of a specification is one ledger, processed record by       *)
(* record.  Each action is one record handler, translated whole.           *)
(***************************************************************************)
EXTENDS Integers, Sequences, FiniteSets, TLC

VARIABLES
    tasks,          \* VizRuntime.tasks: ptid -> VizTask
    links,          \* every VizRuntime.link call, in call order (deps_on / deps_by)
    forks,          \* every VizSlotFork object ever created
    slots_fork,     \* VizRuntime.slots_fork: hval -> index into forks
    joins,          \* every VizSlotJoin object ever created
    slots_join,     \* VizRuntime.slots_join: hval -> index into joins
    slots_queue,    \* VizRuntime.slots_queue: hval -> VizSlotQueue
    slots_order,    \* VizRuntime.slots_order: addr -> VizSlotOrder
    mem_info_heap,  \* VizRuntime.mem_info_heap: addr -> VizMem
    mem_info_pcpu,  \* VizRuntime.mem_info_pcpu: addr -> VizMem
    cells,          \* VizRuntime.cells: addr -> VizMemCell
    races,          \* VizRuntime.races
    cache_hb,       \* VizRuntime.cache_hb
    count,          \* VizRuntime.count: items created so far
    n,              \* number of records announced by the ledger header
    nunit,          \* number of units a task of the ledger enters at most
    fatal,          \* an assertion or exception aborted VizRuntime._process
    nrec,           \* number of ledger records consumed so far
    an,             \* the ExecAnalyzer object (dart.py)
    result,         \* the files the driver of the analysis has written
    lockmap         \* one VizLockMap / LockMap object and what its last call returned

vars == <<tasks, links, forks, slots_fork, joins, slots_join, slots_queue,
          slots_order, mem_info_heap, mem_info_pcpu, cells, races, cache_hb,
          count, n, nunit, fatal, nrec, an, result, lockmap>>

---------------------------------------------------------------------------
(* Bounds of the exploration *)

\* longest ledger explored
MaxRecords == 7

\* longest ledger explored for wait / notify, long enough for a ledger that
\* passes the end-of-stream checks to contain a late notifier
MaxJoinRecords == 10

\* length of the ledgers explored for contexts, call frames and background
\* units: a ledger that closes everything it opens has an even length
MaxCtxtRecords == 6

\* length of the ledgers explored for cycles of the HB graph
MaxLoopRecords == 8

\* most units entered by one task, and most memory accesses made by one
\* task, in one ledger
MaxUnits == 2
MaxAccesses == 2

---------------------------------------------------------------------------
(* Program constants *)

\* CtxtType.from_ptid tests bits 16+8, 16+9, 16+10 of the ptid
SoftirqBit == 16777216
HardirqBit == 33554432
NmiBit == 67108864

\* DART_LOCK_ID_RCU
DART_LOCK_ID_RCU == 1

from_ptid(ptid) ==
    IF (ptid \div SoftirqBit) % 2 = 1 THEN "SOFTIRQ"
    ELSE IF (ptid \div HardirqBit) % 2 = 1 THEN "HARDIRQ"
    ELSE IF (ptid \div NmiBit) % 2 = 1 THEN "NMI"
    ELSE "TASK"

\* SyncInfo: bit 2 = rw, bit 1 = try, bit 0 = succeed
is_rw(info) == (info \div 4) % 2 = 1
is_try(info) == (info \div 2) % 2 = 1
is_succ(info) == info % 2 = 1

---------------------------------------------------------------------------
(* Small helpers for Python containers *)

Nil == [ptid |-> -1, seq |-> -1, clk |-> -1]
NoSlot == 0
EmptyMap == <<>>

Last(s) == s[Len(s)]
Front(s) == SubSeq(s, 1, Len(s) - 1)
MapDel(f, k) == [x \in DOMAIN f \ {k} |-> f[x]]
MapPut(f, k, v) == (k :> v) @@ f
SeqToSet(s) == {s[i] : i \in 1..Len(s)}

RECURSIVE Dedup(_)
Dedup(s) ==
    IF s = <<>> THEN <<>>
    ELSE LET r == Dedup(Front(s))
         IN IF Last(s) \in SeqToSet(r) THEN r ELSE Append(r, Last(s))

---------------------------------------------------------------------------
(* VizPoint *)

VizPoint(ptid, seq, clk) == [ptid |-> ptid, seq |-> seq, clk |-> clk]

step(p) == VizPoint(p.ptid, p.seq, p.clk + 1)

SameUnit(a, b) == a.ptid = b.ptid /\ a.seq = b.seq

\* VizPoint.happens_before: None across units, clock order inside one
VizPoint_happens_before(src, dst) ==
    IF ~SameUnit(src, dst) THEN "None"
    ELSE IF src.clk <= dst.clk THEN "True" ELSE "False"

---------------------------------------------------------------------------
(* Compile database (read-only lookup) and the deny-list.                  *)
(* A source location is a string, here a sequence of symbols; an           *)
(* instruction carries the list of its locations (ValueInst.info).         *)

LocClean == <<"g", ":", "2">>
LocDenied == <<"f", ":", "1">>
LocDeniedLonger == <<"f", ":", "1", "0">>
LocSep == <<"@">>

\* RACE_BLACKLIST: the listed locations
RACE_BLACKLIST == {<<"p">>, LocDenied}

\* instructions of the database: parent function hash and locations.
\* Function hash 0 is the hash of the synthetic base frame of a unit.
InstFunc(inst) == IF inst \in {11, 12, 13} THEN 10 ELSE 0
InstInfo(inst) ==
    CASE inst \in {13, 22} -> <<LocDenied>>
      [] inst = 23 -> <<LocClean, LocDeniedLonger>>
      [] OTHER -> <<LocClean>>

RECURSIVE JoinLocs(_)
\* ValueInst.get_locs: ' @@ '.join(self.info)
JoinLocs(info) ==
    IF info = <<>> THEN <<>>
    ELSE IF Len(info) = 1 THEN info[1]
    ELSE info[1] \o LocSep \o JoinLocs(Tail(info))

get_locs(inst) == JoinLocs(InstInfo(inst))

\* Python's "i in l" on two strings: i is a substring of l
IsSubstring(i, l) ==
    \E k \in 0..(Len(l) - Len(i)) : SubSeq(l, k + 1, k + Len(i)) = i

---------------------------------------------------------------------------
(* VizExec, VizTask *)

BaseFrame == [func |-> 0, addr |-> 0]

\* VizExec.__init__, before its first item (VizItemCtxtRun) is recorded
NewVizExec(kind, hval, seq) ==
    [kind |-> kind, hval |-> hval, seq |-> seq,
     clk |-> 0, paused |-> 0, exited |-> FALSE,
     children |-> <<>>,
     stack |-> <<BaseFrame>>,
     mem_local_info |-> EmptyMap,
     locks_r |-> EmptyMap, locks_w |-> EmptyMap,
     trans_r |-> EmptyMap, trans_w |-> EmptyMap,
     embed_from |-> Nil,
     fork_from |-> NoSlot, fork_done |-> FALSE,
     join_into |-> NoSlot, join_done |-> FALSE]

\* VizTask.__init__
NewVizTask ==
    [nseq |-> 0, hold |-> -1, stack |-> <<>>, last_unit |-> -1,
     children |-> <<>>]

\* the VizRuntime object assembled from the variables
RT ==
    [tasks |-> tasks, links |-> links, forks |-> forks,
     slots_fork |-> slots_fork, joins |-> joins, slots_join |-> slots_join,
     slots_queue |-> slots_queue, slots_order |-> slots_order,
     mem_info_heap |-> mem_info_heap, mem_info_pcpu |-> mem_info_pcpu,
     cells |-> cells, races |-> races, cache_hb |-> cache_hb, count |-> count,
     err |-> FALSE]

Raise(rt) == [rt EXCEPT !.err = TRUE]

\* VizRuntime._get_unit
get_unit(rt, point) == rt.tasks[point.ptid].children[point.seq + 1]

\* VizRuntime._get_item
get_item(rt, point) == get_unit(rt, point).children[point.clk + 1]

\* VizExec.snapshot
snapshot(ptid, unit) == VizPoint(ptid, unit.seq, unit.clk)

\* VizTask.cur
CurSeq(task) == Last(task.stack)
CurUnit(rt, ptid) == rt.tasks[ptid].children[CurSeq(rt.tasks[ptid]) + 1]
CurPoint(rt, ptid) == snapshot(ptid, CurUnit(rt, ptid))

SetUnit(rt, ptid, seq, unit) ==
    [rt EXCEPT !.tasks[ptid].children[seq + 1] = unit]

\* VizItem.__init__: the item is appended to its unit's children and takes
\* its position in the globally serialized trace.  An item made for a slot
\* keeps the slot's key and the point the slot was created at.
NewItem(rt, ptid, seq, item, hval, point, info) ==
    [rt EXCEPT !.tasks[ptid].children[seq + 1].children =
                   Append(@, [kind |-> item, gcnt |-> rt.count,
                              hval |-> hval, point |-> point, info |-> info,
                              error |-> <<>>]),
               !.count = @ + 1]

AddItem(rt, ptid, seq, item) == NewItem(rt, ptid, seq, item, 0, Nil, <<>>)

AddSlotItem(rt, ptid, seq, item, hval, point) ==
    NewItem(rt, ptid, seq, item, hval, point, <<>>)

\* VizItem.add_error on the item made last in the unit
add_error(rt, ptid, seq, msg) ==
    [rt EXCEPT !.tasks[ptid].children[seq + 1].children =
                   [@ EXCEPT ![Len(@)].error = Append(@, msg)]]

\* VizItemLockAcquire / VizItemLockRelease keep lock, is_rw and lock type
AddLockItem(rt, ptid, seq, item, lock, rw, kind) ==
    NewItem(rt, ptid, seq, item, lock, Nil, <<rw, kind>>)

\* a step item that leaves the clock of its unit alone
AddStep_uncompensated(rt, ptid, seq) == AddItem(rt, ptid, seq, "Step")

\* VizItemStep.__init__: a step item compensates the missing clock increment
AddStep(rt, ptid, seq) ==
    LET r == AddItem(rt, ptid, seq, "Step")
    IN [r EXCEPT !.tasks[ptid].children[seq + 1].clk = @ + 1]

---------------------------------------------------------------------------
(* VizRuntime.link and the happens-before search *)

HasLink(rt, src, dst) ==
    \E i \in 1..Len(rt.links) : rt.links[i].src = src /\ rt.links[i].dst = dst

\* VizRuntime.link: one (src, dst) pair may be linked once, whatever the kind
link(rt, src, dst, kind) ==
    IF rt.err THEN rt
    ELSE IF HasLink(rt, src, dst) THEN Raise(rt)
    ELSE [rt EXCEPT !.links = Append(@, [src |-> src, dst |-> dst, kind |-> kind])]

RECURSIVE link_all(_, _, _, _)
\* "for point in slot.other: self.link(point, dst, kind)"
link_all(rt, srcs, dst, kind) ==
    IF srcs = <<>> THEN rt
    ELSE link_all(link(rt, Head(srcs), dst, kind), Tail(srcs), dst, kind)

\* unit.deps_on of the unit of dst, in dict order: keys by first insertion,
\* the sources of one key by insertion
deps_on_keys(rt, dst) ==
    Dedup([i \in 1..Len(rt.links) |-> rt.links[i].dst])

RECURSIVE DepsInOrder(_, _, _)
DepsInOrder(rt, keys, dst) ==
    IF keys = <<>> THEN <<>>
    ELSE LET k == Head(keys)
             here == IF SameUnit(k, dst) /\ ~(k.clk > dst.clk)
                     THEN SelectSeq(rt.links, LAMBDA l : l.dst = k)
                     ELSE <<>>
         IN [i \in 1..Len(here) |-> here[i].src] \o DepsInOrder(rt, Tail(keys), dst)

\* the points "dep" visited by the loops of _happens_before for dst
deps_to_visit(rt, dst) == DepsInOrder(rt, deps_on_keys(rt, dst), dst)

RECURSIVE happens_before_rec(_, _, _, _, _), happens_before_deps(_, _, _, _, _)
\* VizRuntime._happens_before: result, the memo after the call, and whether
\* the call raised 'LOOP IN HAPPENS-BEFORE'
happens_before_rec(rt, src, dst, hist, stks) ==
    LET key == <<src, dst>>
        same == VizPoint_happens_before(src, dst)
    IN IF key \in DOMAIN hist
       THEN [res |-> hist[key], hist |-> hist, loop |-> FALSE]
       ELSE IF same # "None"
       THEN [res |-> (same = "True"),
             hist |-> MapPut(hist, key, same = "True"), loop |-> FALSE]
       ELSE IF key \in stks
       THEN [res |-> FALSE, hist |-> hist, loop |-> TRUE]
       ELSE LET r == happens_before_deps(rt, src, deps_to_visit(rt, dst),
                                         hist, stks \cup {key})
            IN IF r.loop THEN r
               ELSE [res |-> r.res, hist |-> MapPut(r.hist, key, r.res),
                     loop |-> FALSE]

happens_before_deps(rt, src, deps, hist, stks) ==
    IF deps = <<>> THEN [res |-> FALSE, hist |-> hist, loop |-> FALSE]
    ELSE LET r == happens_before_rec(rt, src, Head(deps), hist, stks)
         IN IF r.loop \/ r.res THEN r
            ELSE happens_before_deps(rt, src, Tail(deps), r.hist, stks)

\* VizRuntime.happens_before
happens_before(rt, src, dst) ==
    happens_before_rec(rt, src, dst, rt.cache_hb, {})

---------------------------------------------------------------------------
(* VizTask.add / VizTask.pop, generic context enter and exit *)

\* VizTask.add without the edge from the last exited unit
VizTask_add_no_fifo(rt, ptid, kind, hval) ==
    LET task == rt.tasks[ptid]
        host == IF task.stack = <<>> THEN -1 ELSE Last(task.stack)
        hostsnap == snapshot(ptid, task.children[host + 1])
        unit0 == NewVizExec(kind, hval, task.nseq)
        unit == IF host = -1 THEN unit0
                ELSE [unit0 EXCEPT !.embed_from = hostsnap]
        r0 == [rt EXCEPT !.tasks[ptid].nseq = @ + 1,
                         !.tasks[ptid].stack = Append(@, unit.seq),
                         !.tasks[ptid].children = Append(@, unit)]
        r1 == AddItem(r0, ptid, unit.seq, "CtxtRun")
    IN IF task.hold # -1 THEN Raise(rt)
       ELSE IF host = -1 THEN r1
       ELSE IF task.children[host + 1].exited THEN Raise(rt)
       ELSE AddStep(link(r1, hostsnap, snapshot(ptid, unit), "EMBED"),
                    ptid, host)

VizTask_add(rt, ptid, kind, hval) ==
    LET task == rt.tasks[ptid]
        host == IF task.stack = <<>> THEN -1 ELSE Last(task.stack)
        hostsnap == snapshot(ptid, task.children[host + 1])
        unit0 == NewVizExec(kind, hval, task.nseq)
        unit == IF host = -1 THEN unit0
                ELSE [unit0 EXCEPT !.embed_from = hostsnap]
        usnap == snapshot(ptid, unit)
        r0 == [rt EXCEPT !.tasks[ptid].nseq = @ + 1,
                         !.tasks[ptid].stack = Append(@, unit.seq),
                         !.tasks[ptid].children = Append(@, unit)]
        r1 == AddItem(r0, ptid, unit.seq, "CtxtRun")
        r2 == IF host = -1 THEN r1
              ELSE AddStep(link(r1, hostsnap, usnap, "EMBED"), ptid, host)
        last == task.last_unit
    IN IF task.hold # -1 THEN Raise(rt)
       ELSE IF host # -1 /\ task.children[host + 1].exited THEN Raise(rt)
       ELSE IF last = -1 THEN r2
       ELSE link(r2, snapshot(ptid, r2.tasks[ptid].children[last + 1]),
                 usnap, "FIFO")

\* VizTask.pop without its backward EMBED edge
VizTask_pop_unlinked(rt, ptid) ==
    IF rt.tasks[ptid].hold # -1 THEN Raise(rt)
    ELSE [rt EXCEPT !.tasks[ptid].stack = Front(@)]

VizTask_pop(rt, ptid) ==
    LET task == rt.tasks[ptid]
        useq == Last(task.stack)
        unit == task.children[useq + 1]
        r1 == [rt EXCEPT !.tasks[ptid].stack = Front(@)]
    IN IF task.hold # -1 THEN Raise(rt)
       ELSE IF unit.embed_from = Nil THEN r1
       ELSE IF r1.tasks[ptid].stack = <<>> THEN Raise(rt)
       ELSE link(r1, snapshot(ptid, unit), CurPoint(r1, ptid), "EMBED")

handle_ctxt_enter(rt, ptid, kind, hval) ==
    LET r1 == IF ptid \in DOMAIN rt.tasks THEN rt
              ELSE [rt EXCEPT !.tasks = MapPut(@, ptid, NewVizTask)]
    IN VizTask_add(r1, ptid, kind, hval)

\* the assertions of _handle_ctxt_exit without the one on the call stack
CtxtExitAsserts_any_depth(cur, kind, hval) ==
    /\ cur.kind = kind
    /\ cur.hval = hval
    /\ cur.paused = 0
    /\ ~cur.exited
    /\ DOMAIN cur.mem_local_info = {}
    /\ DOMAIN cur.locks_w = {}
    /\ DOMAIN cur.locks_r = {}
    /\ DOMAIN cur.trans_w = {}
    /\ (cur.fork_from # NoSlot => cur.fork_done)
    /\ (cur.join_into # NoSlot => cur.join_done)

\* every assertion of _handle_ctxt_exit on the current unit
CtxtExitAsserts(cur, kind, hval) ==
    /\ cur.kind = kind
    /\ cur.hval = hval
    /\ cur.paused = 0
    /\ ~cur.exited
    /\ Len(cur.stack) = 1
    /\ DOMAIN cur.mem_local_info = {}
    /\ DOMAIN cur.locks_w = {}
    /\ DOMAIN cur.locks_r = {}
    /\ DOMAIN cur.trans_w = {}
    /\ (cur.fork_from # NoSlot => cur.fork_done)
    /\ (cur.join_into # NoSlot => cur.join_done)

\* the handler without "task.last_unit = cur"
handle_ctxt_exit_unrecorded(rt, ptid, kind, hval) ==
    IF ptid \notin DOMAIN rt.tasks THEN Raise(rt)
    ELSE IF rt.tasks[ptid].stack = <<>> THEN Raise(rt)
    ELSE LET cseq == CurSeq(rt.tasks[ptid])
             r1 == AddItem(rt, ptid, cseq, "CtxtEnd")
             r2 == [r1 EXCEPT !.tasks[ptid].children[cseq + 1].clk = @ + 1,
                              !.tasks[ptid].children[cseq + 1].exited = TRUE]
         IN IF ~CtxtExitAsserts(CurUnit(rt, ptid), kind, hval) THEN Raise(rt)
            ELSE VizTask_pop(r2, ptid)

handle_ctxt_exit(rt, ptid, kind, hval) ==
    IF ptid \notin DOMAIN rt.tasks THEN Raise(rt)
    ELSE IF rt.tasks[ptid].stack = <<>> THEN Raise(rt)
    ELSE LET cseq == CurSeq(rt.tasks[ptid])
             cur == CurUnit(rt, ptid)
             r1 == AddItem(rt, ptid, cseq, "CtxtEnd")
             r2 == [r1 EXCEPT !.tasks[ptid].children[cseq + 1].clk = @ + 1,
                              !.tasks[ptid].children[cseq + 1].exited = TRUE]
             r3 == VizTask_pop(r2, ptid)
         IN IF ~CtxtExitAsserts(cur, kind, hval) THEN Raise(rt)
            ELSE [r3 EXCEPT !.tasks[ptid].last_unit = cseq]

\* VizTask.bg / VizTask.fg, after "task = self.tasks[ptid]"
VizTask_bg(rt, ptid) ==
    IF ptid \notin DOMAIN rt.tasks THEN Raise(rt)
    ELSE IF rt.tasks[ptid].hold # -1 THEN Raise(rt)
    ELSE IF rt.tasks[ptid].stack = <<>> THEN Raise(rt)
    ELSE [rt EXCEPT !.tasks[ptid].hold = Last(rt.tasks[ptid].stack),
                    !.tasks[ptid].stack = Front(@)]

VizTask_fg(rt, ptid) ==
    IF ptid \notin DOMAIN rt.tasks THEN Raise(rt)
    ELSE IF rt.tasks[ptid].hold = -1 THEN Raise(rt)
    ELSE [rt EXCEPT !.tasks[ptid].stack = Append(@, rt.tasks[ptid].hold),
                    !.tasks[ptid].hold = -1]

\* VizRuntime._handle_func_enter: VizExec.add_func, then the item
handle_func_enter(rt, ptid, hval, addr) ==
    LET cseq == CurSeq(rt.tasks[ptid])
        r1 == [rt EXCEPT !.tasks[ptid].children[cseq + 1].stack =
                             Append(@, [func |-> hval, addr |-> addr])]
    IN NewItem(r1, ptid, cseq, "FuncEnter", hval, Nil, <<>>)

\* the asserts of _handle_func_exit on the frame on top of the call stack.
\* The base frame holds a function object made for the unit, which is no
\* function of the database.
FuncExitAsserts(unit, hval, addr) ==
    /\ Len(unit.stack) > 1
    /\ Last(unit.stack).func = hval
    /\ Last(unit.stack).addr = addr

\* VizRuntime._handle_func_exit
handle_func_exit(rt, ptid, hval, addr) ==
    LET cseq == CurSeq(rt.tasks[ptid])
        r1 == [rt EXCEPT !.tasks[ptid].children[cseq + 1].stack = Front(@)]
    IN IF ~FuncExitAsserts(CurUnit(rt, ptid), hval, addr) THEN Raise(rt)
       ELSE NewItem(r1, ptid, cseq, "FuncExit", hval, Nil, <<>>)

---------------------------------------------------------------------------
(* Memory objects: VizMem, _handle_mem_alloc, _handle_mem_free *)

\* VizMem with the point of its VizItemMemAlloc
VizMem(addr, size, kind, site) ==
    [addr |-> addr, size |-> size, kind |-> kind, site_alloc |-> site]

MemRange(addr, size) == {addr + i : i \in 0..(size - 1)}

\* "for i in range(size): assert (addr + i) not in repo; repo[addr + i] = mobj"
RepoAdd(repo, mobj) ==
    [a \in DOMAIN repo \cup MemRange(mobj.addr, mobj.size) |->
        IF a \in MemRange(mobj.addr, mobj.size) THEN mobj ELSE repo[a]]

\* "for i in range(mobj.size): assert repo[addr + i] == mobj; del repo[addr + i]"
RepoDel(repo, mobj) ==
    [a \in DOMAIN repo \ MemRange(mobj.addr, mobj.size) |-> repo[a]]

\* the repository a kind of memory lives in
RepoOf(rt, ptid, kind) ==
    CASE kind = "STACK" -> CurUnit(rt, ptid).mem_local_info
      [] kind = "HEAP" -> rt.mem_info_heap
      [] kind = "PERCPU" -> rt.mem_info_pcpu

WithRepo(rt, ptid, kind, repo) ==
    CASE kind = "STACK" ->
            [rt EXCEPT !.tasks[ptid].children[CurSeq(rt.tasks[ptid]) + 1]
                           .mem_local_info = repo]
      [] kind = "HEAP" -> [rt EXCEPT !.mem_info_heap = repo]
      [] kind = "PERCPU" -> [rt EXCEPT !.mem_info_pcpu = repo]

handle_mem_alloc(rt, ptid, kind, addr, size) ==
    LET unit == CurUnit(rt, ptid)
        repo == RepoOf(rt, ptid, kind)
        mobj == VizMem(addr, size, kind, snapshot(ptid, unit))
        r1 == WithRepo(rt, ptid, kind, RepoAdd(repo, mobj))
    IN IF kind \notin {"STACK", "HEAP", "PERCPU"} THEN Raise(rt)
       ELSE IF MemRange(addr, size) \cap DOMAIN repo # {} THEN Raise(rt)
       ELSE NewItem(r1, ptid, unit.seq, "MemAlloc", addr, Nil, <<kind>>)

handle_mem_free(rt, ptid, kind, addr) ==
    LET unit == CurUnit(rt, ptid)
        repo == RepoOf(rt, ptid, kind)
        mobj == repo[addr]
        r1 == WithRepo(rt, ptid, kind, RepoDel(repo, mobj))
    IN IF kind \notin {"STACK", "HEAP", "PERCPU"} THEN Raise(rt)
       ELSE IF addr \notin DOMAIN repo THEN Raise(rt)
       ELSE IF mobj.addr # addr \/ mobj.kind # kind THEN Raise(rt)
       ELSE IF \E a \in MemRange(addr, mobj.size) :
                   a \notin DOMAIN repo \/ repo[a] # mobj THEN Raise(rt)
       ELSE NewItem(r1, ptid, unit.seq, "MemFree", addr, Nil, <<kind>>)

---------------------------------------------------------------------------
(* The race predicate: VizRuntime._check_race *)

BothInterrupt(src, dst) ==
    from_ptid(src.point.ptid) # "TASK" /\ from_ptid(dst.point.ptid) # "TASK"

EitherHardirq(src, dst) ==
    from_ptid(src.point.ptid) = "HARDIRQ" \/ from_ptid(dst.point.ptid) = "HARDIRQ"

EitherBlock(rt, src, dst) ==
    get_unit(rt, src.point).kind = "BLOCK" \/ get_unit(rt, dst.point).kind = "BLOCK"

\* locksets never found to intersect
LocksIntersect_never(src, dst) == FALSE

LocksIntersect(src, dst) == src.sync_locks \cap dst.sync_locks # {}

\* pending transactions never found
TransPending_never(src, dst, rw) == FALSE

TransPending(src, dst, rw) ==
    rw /\ {k \in src.sync_trans : k \in dst.sync_trans} # {}

\* race_blacklist(src, dst): a listed location occurs in the location string
\* of either instruction
race_blacklist(src, dst) ==
    \E i \in RACE_BLACKLIST :
        IsSubstring(i, get_locs(src.inst)) \/ IsSubstring(i, get_locs(dst.inst))

VizDataRace(addr, src, dst) == [addr |-> addr, src |-> src, dst |-> dst]

check_race(rt, src, dst, addr, rw) ==
    IF rt.err THEN rt
    ELSE IF BothInterrupt(src, dst) THEN rt
    ELSE IF EitherHardirq(src, dst) THEN rt
    ELSE IF EitherBlock(rt, src, dst) THEN rt
    ELSE LET q == happens_before(rt, src.point, dst.point)
             r1 == [rt EXCEPT !.cache_hb = q.hist]
         IN IF q.loop THEN Raise(rt)
            ELSE IF q.res THEN r1
            ELSE IF LocksIntersect(src, dst) THEN r1
            ELSE IF TransPending(src, dst, rw) THEN r1
            ELSE IF race_blacklist(src, dst) THEN r1
            ELSE [r1 EXCEPT !.races = Append(@, VizDataRace(addr, src, dst))]

---------------------------------------------------------------------------
(* Memory cells *)

VizMemCell == [readers |-> <<>>, writers |-> <<>>]

\* a dict ptid -> list of accesses, kept in insertion order of its keys
HasKey(d, ptid) == \E i \in 1..Len(d) : d[i].ptid = ptid
KeyIdx(d, ptid) == CHOOSE i \in 1..Len(d) : d[i].ptid = ptid
WithKey(d, ptid) ==
    IF HasKey(d, ptid) THEN d ELSE Append(d, [ptid |-> ptid, accs |-> <<>>])
\* the accesses stored in one dict of a cell
Accesses(d) == UNION {SeqToSet(d[i].accs) : i \in 1..Len(d)}
AppendAccess(d, ptid, access) ==
    [d EXCEPT ![KeyIdx(d, ptid)].accs = Append(@, access)]

\* VizLockMap.lockset_r / lockset_w, VizTranMap.transet_r / transet_w
lockset_r(unit) == DOMAIN unit.locks_r \cup DOMAIN unit.locks_w
lockset_w(unit) == DOMAIN unit.locks_w
transet_r(unit) == DOMAIN unit.trans_r
transet_w(unit) == DOMAIN unit.trans_w

VizMemAccess(inst, point, locks, trans) ==
    [inst |-> inst, point |-> point, sync_locks |-> locks, sync_trans |-> trans]

RECURSIVE check_against(_, _, _, _, _, _)
\* "for k, v in d.items(): if ptid == k: continue; _check_race(v[-1], ...)"
check_against(rt, d, ptid, access, addr, rw) ==
    IF d = <<>> THEN rt
    ELSE LET r1 == IF Head(d).ptid = ptid THEN rt
                   ELSE check_race(rt, Last(Head(d).accs), access, addr, rw)
         IN check_against(r1, Tail(d), ptid, access, addr, rw)

\* the stack-memory map of every unit consulted instead of the unit's own
IgnoredAddr_any_unit(rt, unit, addr) ==
    \/ \E p \in DOMAIN rt.tasks : \E s \in 1..Len(rt.tasks[p].children) :
           addr \in DOMAIN rt.tasks[p].children[s].mem_local_info
    \/ addr \in DOMAIN rt.mem_info_pcpu

IgnoredAddr(rt, unit, addr) ==
    addr \in DOMAIN unit.mem_local_info \/ addr \in DOMAIN rt.mem_info_pcpu

check_mem_cell_reader(rt, ptid, inst, addr) ==
    LET unit == CurUnit(rt, ptid)
        r1 == IF addr \in DOMAIN rt.cells THEN rt
              ELSE [rt EXCEPT !.cells = MapPut(@, addr, VizMemCell)]
        r2 == [r1 EXCEPT !.cells[addr].readers = WithKey(@, ptid)]
        access == VizMemAccess(inst, snapshot(ptid, unit),
                               lockset_r(unit), transet_r(unit))
        r3 == check_against(r2, r2.cells[addr].writers, ptid, access, addr, TRUE)
    IN IF rt.err \/ IgnoredAddr(rt, unit, addr) THEN rt
       ELSE [r3 EXCEPT !.cells[addr].readers = AppendAccess(@, ptid, access)]

check_mem_cell_writer(rt, ptid, inst, addr) ==
    LET unit == CurUnit(rt, ptid)
        r1 == IF addr \in DOMAIN rt.cells THEN rt
              ELSE [rt EXCEPT !.cells = MapPut(@, addr, VizMemCell)]
        r2 == [r1 EXCEPT !.cells[addr].writers = WithKey(@, ptid)]
        access == VizMemAccess(inst, snapshot(ptid, unit),
                               lockset_w(unit), transet_w(unit))
        r3 == check_against(r2, r2.cells[addr].readers, ptid, access, addr, TRUE)
        r4 == check_against(r3, r3.cells[addr].writers, ptid, access, addr, FALSE)
    IN IF rt.err \/ IgnoredAddr(rt, unit, addr) THEN rt
       ELSE [r4 EXCEPT !.cells[addr].writers = AppendAccess(@, ptid, access)]

RECURSIVE read_bytes(_, _, _, _, _, _), write_bytes(_, _, _, _, _, _)
\* "for i in range(size): self._check_mem_cell_reader(unit, inst, addr + i)"
read_bytes(rt, ptid, inst, addr, i, size) ==
    IF i >= size THEN rt
    ELSE read_bytes(check_mem_cell_reader(rt, ptid, inst, addr + i),
                    ptid, inst, addr, i + 1, size)

write_bytes(rt, ptid, inst, addr, i, size) ==
    IF i >= size THEN rt
    ELSE write_bytes(check_mem_cell_writer(rt, ptid, inst, addr + i),
                     ptid, inst, addr, i + 1, size)

\* "assert inst.get_parent().get_parent().hval == unit.cur.func.hval"
InstOnStack(rt, ptid, hval) == InstFunc(hval) = Last(CurUnit(rt, ptid).stack).func

handle_mem_read(rt, ptid, hval, addr, size) ==
    IF ~InstOnStack(rt, ptid, hval) THEN Raise(rt)
    ELSE LET r == read_bytes(rt, ptid, hval, addr, 0, size)
         IN IF r.err THEN r
            ELSE AddItem(r, ptid, CurSeq(r.tasks[ptid]), "MemRead")

handle_mem_write(rt, ptid, hval, addr, size) ==
    IF ~InstOnStack(rt, ptid, hval) THEN Raise(rt)
    ELSE LET r == write_bytes(rt, ptid, hval, addr, 0, size)
         IN IF r.err THEN r
            ELSE AddItem(r, ptid, CurSeq(r.tasks[ptid]), "MemWrite")

---------------------------------------------------------------------------
(* Fork-style asynchronous work *)

VizSlotFork(kind, hval, func, point) ==
    [kind |-> kind, hval |-> hval, func |-> func, point |-> point,
     other |-> <<>>, users |-> <<>>]

\* the handler without its assertion on double registration
handle_fork_register_unchecked(rt, ptid, kind, hval, func) ==
    LET unit == CurUnit(rt, ptid)
        slot == VizSlotFork(kind, hval, func, snapshot(ptid, unit))
        r1 == [rt EXCEPT !.forks = Append(@, slot),
                         !.slots_fork = MapPut(MapDel(@, hval), hval,
                                               Len(rt.forks) + 1)]
    IN AddItem(r1, ptid, unit.seq, "ForkRegister")

handle_fork_register(rt, ptid, kind, hval, func) ==
    LET unit == CurUnit(rt, ptid)
        slot == VizSlotFork(kind, hval, func, snapshot(ptid, unit))
        r1 == [rt EXCEPT !.forks = Append(@, slot),
                         !.slots_fork = MapPut(@, hval, Len(rt.forks) + 1)]
    IN IF hval \in DOMAIN rt.slots_fork THEN Raise(rt)
       ELSE AddItem(r1, ptid, unit.seq, "ForkRegister")

\* the handler without its FORK edges
handle_fork_ctxt_entered_unlinked(rt, ptid, kind, hval, func) ==
    IF rt.err THEN rt
    ELSE IF hval \notin DOMAIN rt.slots_fork THEN Raise(rt)
    ELSE LET id == rt.slots_fork[hval]
             unit == CurUnit(rt, ptid)
         IN [rt EXCEPT !.tasks[ptid].children[unit.seq + 1].fork_from = id,
                       !.forks[id].users = Append(@, snapshot(ptid, unit)),
                       !.slots_fork = MapDel(@, hval)]

\* the handler without "del self.slots_fork[hval]"
handle_fork_ctxt_entered_kept(rt, ptid, kind, hval, func) ==
    LET r == handle_fork_ctxt_entered_unlinked(rt, ptid, kind, hval, func)
    IN IF r.err THEN r ELSE [r EXCEPT !.slots_fork = rt.slots_fork]

handle_fork_ctxt_entered(rt, ptid, kind, hval, func) ==
    IF rt.err THEN rt
    ELSE IF hval \notin DOMAIN rt.slots_fork THEN Raise(rt)
    ELSE LET id == rt.slots_fork[hval]
             slot == rt.forks[id]
             unit == CurUnit(rt, ptid)
             usnap == snapshot(ptid, unit)
             \* VizExec.set_fork_from
             r1 == [rt EXCEPT !.tasks[ptid].children[unit.seq + 1].fork_from = id,
                              !.forks[id].users = Append(@, usnap)]
             r2 == link(r1, slot.point, usnap, "FORK")
             r3 == link_all(r2, slot.other, usnap, "FORK")
         IN IF slot.kind # kind \/ slot.func # func THEN Raise(rt)
            ELSE IF unit.fork_from # NoSlot THEN Raise(rt)
            ELSE [r3 EXCEPT !.slots_fork = MapDel(@, hval)]

handle_fork_ctxt_exited(rt, ptid, kind, hval, func) ==
    IF ptid \notin DOMAIN rt.tasks THEN Raise(rt)
    ELSE IF rt.tasks[ptid].stack = <<>> THEN Raise(rt)
    ELSE LET unit == CurUnit(rt, ptid)
             slot == rt.forks[unit.fork_from]
         IN IF unit.fork_from = NoSlot THEN Raise(rt)
            ELSE IF slot.kind # kind \/ slot.hval # hval \/ slot.func # func
            THEN Raise(rt)
            ELSE IF hval \in DOMAIN rt.slots_fork
                    /\ rt.forks[rt.slots_fork[hval]] = slot
            THEN Raise(rt)
            ELSE [rt EXCEPT !.tasks[ptid].children[unit.seq + 1].fork_done = TRUE]

\* VizRuntime._handle_fork_cancel: fork_into never loses a slot, so the
\* owner's queue always holds the slot found under the hash
handle_fork_cancel(rt, ptid, kind, hval, func) ==
    IF hval \notin DOMAIN rt.slots_fork THEN Raise(rt)
    ELSE LET slot == rt.forks[rt.slots_fork[hval]]
             unit == CurUnit(rt, ptid)
             usnap == snapshot(ptid, unit)
             r1 == link(rt, slot.point, usnap, "QUEUE")
             r2 == link_all(r1, slot.other, usnap, "QUEUE")
             r3 == [r2 EXCEPT !.slots_fork = MapDel(@, hval)]
         IN IF slot.kind # kind \/ slot.hval # hval \/ slot.func # func
            THEN Raise(rt)
            ELSE IF slot.users # <<>> THEN Raise(rt)
            ELSE IF r2.err THEN r2
            ELSE AddSlotItem(r3, ptid, unit.seq, "ForkCancel", hval, slot.point)

handle_ctxt_enter_into_fork(rt, ptid, kind, hval, func) ==
    handle_fork_ctxt_entered(handle_ctxt_enter(rt, ptid, kind, hval),
                             ptid, kind, hval, func)

handle_ctxt_exit_from_fork(rt, ptid, kind, hval, func) ==
    LET r == handle_fork_ctxt_exited(rt, ptid, kind, hval, func)
    IN IF r.err THEN r ELSE handle_ctxt_exit(r, ptid, kind, hval)

---------------------------------------------------------------------------
(* Queues *)

VizSlotQueue(kind, hval, point) ==
    [kind |-> kind, hval |-> hval, point |-> point, other |-> <<>>, users |-> <<>>]

handle_queue_arrive(rt, ptid, kind, hval) ==
    LET unit == CurUnit(rt, ptid)
        usnap == snapshot(ptid, unit)
        slot == rt.slots_queue[hval]
        r1 == link(rt, slot.point, usnap, "QUEUE")
        r2 == link_all(r1, slot.other, usnap, "QUEUE")
        r3 == IF hval \in DOMAIN rt.slots_queue
              THEN IF slot.kind # kind THEN Raise(rt)
                   ELSE [r2 EXCEPT !.slots_queue = MapDel(@, hval)]
              ELSE rt
        \* the slot found, or the mock slot made at this point
        from == IF hval \in DOMAIN rt.slots_queue THEN slot.point ELSE usnap
    IN IF r3.err THEN r3
       ELSE AddSlotItem(r3, ptid, unit.seq, "QueueArrive", hval, from)

\* the handler forgetting every notifier but the first
handle_queue_notify_first_only(rt, ptid, kind, hval) ==
    LET unit == CurUnit(rt, ptid)
        usnap == snapshot(ptid, unit)
        r1 == IF hval \in DOMAIN rt.slots_queue THEN rt
              ELSE [rt EXCEPT !.slots_queue =
                        MapPut(@, hval, VizSlotQueue(kind, hval, usnap))]
    IN AddSlotItem(r1, ptid, unit.seq, "QueueNotify", hval,
                   r1.slots_queue[hval].point)

handle_queue_notify(rt, ptid, kind, hval) ==
    LET unit == CurUnit(rt, ptid)
        usnap == snapshot(ptid, unit)
        r1 == IF hval \in DOMAIN rt.slots_queue
              THEN IF rt.slots_queue[hval].users # <<>> THEN Raise(rt)
                   ELSE [rt EXCEPT !.slots_queue[hval].other = Append(@, usnap)]
              ELSE [rt EXCEPT !.slots_queue =
                        MapPut(@, hval, VizSlotQueue(kind, hval, usnap))]
    IN IF r1.err THEN r1
       ELSE AddSlotItem(r1, ptid, unit.seq, "QueueNotify", hval,
                        r1.slots_queue[hval].point)

---------------------------------------------------------------------------
(* Join-style events (wait / notify) *)

VizSlotJoin(kind, hval, func, head, point) ==
    [kind |-> kind, hval |-> hval, func |-> func, head |-> head,
     point |-> point, other |-> <<>>, users |-> <<>>]

handle_join_arrive(rt, ptid, kind, hval, func, head) ==
    LET unit == CurUnit(rt, ptid)
        slot == VizSlotJoin(kind, hval, func, head, snapshot(ptid, unit))
        r1 == [rt EXCEPT !.joins = Append(@, slot),
                         !.slots_join = MapPut(@, hval, Len(rt.joins) + 1)]
    IN IF hval \in DOMAIN rt.slots_join THEN Raise(rt)
       ELSE AddStep(AddItem(r1, ptid, unit.seq, "JoinArrive"), ptid, unit.seq)

handle_join_pass(rt, ptid, kind, hval, func) ==
    IF hval \notin DOMAIN rt.slots_join THEN Raise(rt)
    ELSE LET id == rt.slots_join[hval]
             slot == rt.joins[id]
             unit == CurUnit(rt, ptid)
             usnap == snapshot(ptid, unit)
             qlot == rt.slots_queue[slot.head]
             \* the waiter came too late for a notifier: consume the queue slot
             w1 == link_all(link(rt, qlot.point, usnap, "QUEUE"),
                            qlot.other, usnap, "QUEUE")
             w2 == IF slot.users = <<>> /\ slot.head \in DOMAIN rt.slots_queue
                   THEN [w1 EXCEPT !.slots_queue = MapDel(@, slot.head)]
                   ELSE rt
             \* "assert slot in unit.join_from": the unit that arrived passes
             waiter_ok == slot.point.seq = unit.seq
             notifier_ok ==
                 /\ Len(slot.users) >= 1
                 /\ \A i \in 1..Len(slot.users) : slot.users[i].ptid = ptid
             r1 == IF ptid = slot.point.ptid
                   THEN IF waiter_ok THEN w2 ELSE Raise(rt)
                   ELSE IF notifier_ok THEN rt ELSE Raise(rt)
         IN IF slot.kind # kind \/ slot.func # func THEN Raise(rt)
            ELSE IF r1.err THEN r1
            ELSE AddItem([r1 EXCEPT !.slots_join = MapDel(@, hval)],
                         ptid, unit.seq, "JoinPass")

\* the handler without its JOIN edge
handle_join_ctxt_entered_fork_only(rt, ptid, kind, hval, func) ==
    IF rt.err THEN rt
    ELSE IF hval \notin DOMAIN rt.slots_join THEN Raise(rt)
    ELSE LET id == rt.slots_join[hval]
             unit == CurUnit(rt, ptid)
             usnap == snapshot(ptid, unit)
             r1 == [rt EXCEPT !.tasks[ptid].children[unit.seq + 1].join_into = id,
                              !.joins[id].users = Append(@, usnap)]
         IN link(r1, rt.joins[id].point, usnap, "FORK")

handle_join_ctxt_entered(rt, ptid, kind, hval, func) ==
    IF rt.err THEN rt
    ELSE IF hval \notin DOMAIN rt.slots_join THEN Raise(rt)
    ELSE LET id == rt.slots_join[hval]
             slot == rt.joins[id]
             unit == CurUnit(rt, ptid)
             usnap == snapshot(ptid, unit)
             \* VizExec.set_join_into
             r1 == [rt EXCEPT !.tasks[ptid].children[unit.seq + 1].join_into = id,
                              !.joins[id].users = Append(@, usnap)]
             r2 == link(r1, slot.point, usnap, "FORK")
             r3 == link(r2, usnap, step(slot.point), "JOIN")
         IN IF slot.kind # kind \/ slot.func # func THEN Raise(rt)
            ELSE IF unit.join_into # NoSlot THEN Raise(rt)
            ELSE IF r2.err THEN r2
            ELSE IF get_item(r2, step(slot.point)).kind # "Step" THEN Raise(rt)
            ELSE r3

handle_join_ctxt_exited(rt, ptid, kind, hval, func) ==
    IF ptid \notin DOMAIN rt.tasks THEN Raise(rt)
    ELSE IF rt.tasks[ptid].stack = <<>> THEN Raise(rt)
    ELSE LET unit == CurUnit(rt, ptid)
             slot == rt.joins[unit.join_into]
         IN IF unit.join_into = NoSlot THEN Raise(rt)
            ELSE IF slot.kind # kind \/ slot.hval # hval \/ slot.func # func
            THEN Raise(rt)
            ELSE [rt EXCEPT !.tasks[ptid].children[unit.seq + 1].join_done = TRUE]

handle_ctxt_enter_into_join(rt, ptid, kind, hval, func) ==
    handle_join_ctxt_entered(handle_ctxt_enter(rt, ptid, kind, hval),
                             ptid, kind, hval, func)

handle_ctxt_exit_from_join(rt, ptid, kind, hval, func) ==
    LET r == handle_join_ctxt_exited(rt, ptid, kind, hval, func)
    IN IF r.err THEN r ELSE handle_ctxt_exit(r, ptid, kind, hval)

---------------------------------------------------------------------------
(* Ordering through deposited objects *)

VizSlotOrder(kind, addr, objv, point) ==
    [kind |-> kind, addr |-> addr, objv |-> objv, point |-> point,
     users |-> <<>>]

\* the handler that keeps the slot an earlier deposit left at the address
handle_order_deposit_first_only(rt, ptid, kind, addr, objv) ==
    LET unit == CurUnit(rt, ptid)
        slot == VizSlotOrder(kind, addr, objv, snapshot(ptid, unit))
        r1 == IF addr \in DOMAIN rt.slots_order THEN rt
              ELSE [rt EXCEPT !.slots_order = MapPut(@, addr, slot)]
    IN NewItem(r1, ptid, unit.seq, "OrderDeposit", addr, slot.point,
               <<kind, objv>>)

handle_order_deposit(rt, ptid, kind, addr, objv) ==
    LET unit == CurUnit(rt, ptid)
        slot == VizSlotOrder(kind, addr, objv, snapshot(ptid, unit))
        r1 == [rt EXCEPT !.slots_order = MapPut(MapDel(@, addr), addr, slot)]
    IN NewItem(r1, ptid, unit.seq, "OrderDeposit", addr, slot.point,
               <<kind, objv>>)

handle_order_consume(rt, ptid, kind, addr) ==
    IF addr \notin DOMAIN rt.slots_order THEN Raise(rt)
    ELSE LET slot == rt.slots_order[addr]
             unit == CurUnit(rt, ptid)
             usnap == snapshot(ptid, unit)
             r1 == [rt EXCEPT !.slots_order[addr].users = Append(@, usnap)]
             r2 == link(r1, slot.point, usnap, "ORDER")
         IN IF slot.kind # kind THEN Raise(rt)
            ELSE IF r2.err THEN r2
            ELSE NewItem(r2, ptid, unit.seq, "OrderConsume", addr, slot.point,
                         <<kind, slot.objv>>)

---------------------------------------------------------------------------
(* Locks and transactions *)

\* defaultdict(int) lookup
depth_of(locks, lock) == IF lock \in DOMAIN locks THEN locks[lock] ELSE 0

\* VizLockMapImpl.add_lock / del_lock: the map after the call
add_lock(locks, lock) == MapPut(MapDel(locks, lock), lock, depth_of(locks, lock) + 1)

\* a del_lock that decrements but keeps the key of a lock whose depth
\* reaches zero
del_lock_keeps_key(locks, lock) ==
    MapPut(MapDel(locks, lock), lock,
           IF depth_of(locks, lock) <= 1 THEN 0 ELSE depth_of(locks, lock) - 1)

del_lock(locks, lock) ==
    IF depth_of(locks, lock) <= 1 THEN MapDel(locks, lock)
    ELSE [locks EXCEPT ![lock] = @ - 1]

VizTranInfo == [begin |-> Nil, retry |-> Nil]

\* defaultdict(VizTranInfo) lookup
tran_of(trans, tran) == IF tran \in DOMAIN trans THEN trans[tran] ELSE VizTranInfo

\* VizTranMapImpl.add_tran / del_tran: the map after the call
add_tran(trans, tran, point) ==
    MapPut(MapDel(trans, tran), tran, [begin |-> point, retry |-> Nil])

del_tran(trans, tran, point) ==
    MapPut(MapDel(trans, tran), tran,
           [begin |-> tran_of(trans, tran).begin, retry |-> point])

handle_lock_acquire(rt, ptid, kind, info, lock) ==
    LET unit == CurUnit(rt, ptid)
        depth == IF is_rw(info) THEN depth_of(unit.locks_w, lock)
                 ELSE depth_of(unit.locks_r, lock)
        u1 == IF is_rw(info)
              THEN [unit EXCEPT !.locks_w = add_lock(@, lock)]
              ELSE [unit EXCEPT !.locks_r = add_lock(@, lock)]
    IN IF ~is_succ(info) THEN Raise(rt)
       ELSE IF kind = "GEN" /\ depth # 0 THEN Raise(rt)
       ELSE AddLockItem(SetUnit(rt, ptid, unit.seq, u1), ptid, unit.seq,
                        "LockAcquire", lock, is_rw(info), kind)

handle_lock_release(rt, ptid, kind, info, lock) ==
    LET unit == CurUnit(rt, ptid)
        depth == IF is_rw(info) THEN depth_of(unit.locks_w, lock)
                 ELSE depth_of(unit.locks_r, lock)
        u1 == IF is_rw(info)
              THEN [unit EXCEPT !.locks_w = del_lock(@, lock)]
              ELSE [unit EXCEPT !.locks_r = del_lock(@, lock)]
    IN IF ~is_succ(info) THEN Raise(rt)
       ELSE IF kind = "GEN" /\ depth # 1 THEN Raise(rt)
       ELSE IF kind = "RCU" /\ depth < 1 THEN Raise(rt)
       ELSE AddLockItem(SetUnit(rt, ptid, unit.seq, u1), ptid, unit.seq,
                        "LockRelease", lock, is_rw(info), kind)

handle_tran_acquire(rt, ptid, kind, info, lock) ==
    LET unit == CurUnit(rt, ptid)
        depth == depth_of(unit.trans_w, lock)
        prior == tran_of(unit.trans_r, lock).retry
        u1 == IF is_rw(info)
              THEN [unit EXCEPT !.trans_w = add_lock(@, lock)]
              ELSE [unit EXCEPT !.trans_r = add_tran(@, lock, snapshot(ptid, unit))]
        r1 == AddLockItem(SetUnit(rt, ptid, unit.seq, u1), ptid, unit.seq,
                          "LockAcquire", lock, is_rw(info), kind)
    IN IF ~is_succ(info) THEN Raise(rt)
       ELSE IF is_rw(info) /\ kind = "SEQ" /\ depth # 0 THEN Raise(rt)
       ELSE IF ~is_rw(info) /\ kind = "SEQ" /\ prior = Nil
       THEN add_error(r1, ptid, unit.seq, "acquired without release")
       ELSE r1

handle_tran_release(rt, ptid, kind, info, lock) ==
    LET unit == CurUnit(rt, ptid)
        depth == depth_of(unit.trans_w, lock)
        prior == tran_of(unit.trans_r, lock).begin
        u1 == IF is_rw(info)
              THEN [unit EXCEPT !.trans_w = del_lock(@, lock)]
              ELSE [unit EXCEPT !.trans_r = del_tran(@, lock, snapshot(ptid, unit))]
    IN IF ~is_succ(info) THEN Raise(rt)
       ELSE IF is_rw(info) /\ kind = "SEQ" /\ depth # 1 THEN Raise(rt)
       ELSE IF ~is_rw(info) /\ prior = Nil THEN Raise(rt)
       ELSE AddLockItem(SetUnit(rt, ptid, unit.seq, u1), ptid, unit.seq,
                        "LockRelease", lock, is_rw(info), kind)

---------------------------------------------------------------------------
(* ExecAnalyzer (dart.py).  An Optional value is a sequence of at most one *)
(* element; a dict keyed by ptid is a sequence in insertion order.         *)

\* ExecUnit.create
ExecUnit_create(ptid) ==
    [ptid |-> ptid, ctxt |-> -1, base |-> <<>>, seq |-> 0, clk |-> 0,
     deps |-> <<>>]

\* ExecUnit.coordinate
coordinate(unit) == <<unit.ptid, unit.seq, unit.clk>>

\* ExecUnit._happens_before_in_task
happens_before_in_task(self, unit) ==
    \/ self.seq < unit.seq
    \/ self.seq = unit.seq /\ self.clk <= unit.clk

RECURSIVE ExecUnit_happens_before(_, _, _)
RECURSIVE ExecUnit_happens_before_deps(_, _, _)

\* ExecUnit._happens_before, with the memo hist of one query
ExecUnit_happens_before(self, unit, hist) ==
    LET cord == coordinate(unit)
    IN IF cord \in DOMAIN hist THEN [res |-> hist[cord], hist |-> hist]
       ELSE IF self.ptid = unit.ptid
       THEN LET r == happens_before_in_task(self, unit)
            IN [res |-> r, hist |-> MapPut(hist, cord, r)]
       ELSE LET b == IF unit.base # <<>>
                     THEN ExecUnit_happens_before(self, unit.base[1], hist)
                     ELSE [res |-> FALSE, hist |-> hist]
            IN IF b.res
               THEN [res |-> TRUE, hist |-> MapPut(b.hist, cord, TRUE)]
               ELSE LET d == ExecUnit_happens_before_deps(self, unit.deps,
                                                          b.hist)
                    IN [res |-> d.res, hist |-> MapPut(d.hist, cord, d.res)]

\* "for dep in unit.deps.values(): if self._happens_before(dep, hist): ..."
ExecUnit_happens_before_deps(self, deps, hist) ==
    IF deps = <<>> THEN [res |-> FALSE, hist |-> hist]
    ELSE LET r == ExecUnit_happens_before(self, Head(deps), hist)
         IN IF r.res THEN r
            ELSE ExecUnit_happens_before_deps(self, Tail(deps), r.hist)

\* ExecUnit.happens_before
ExecUnit_hb(self, unit) == ExecUnit_happens_before(self, unit, EmptyMap).res

\* ExecUnit.add_dep
add_dep(unit, dep) ==
    IF ~\E i \in 1..Len(unit.deps) : unit.deps[i].ptid = dep.ptid
    THEN [unit EXCEPT !.deps = Append(@, dep)]
    ELSE LET i == CHOOSE j \in 1..Len(unit.deps) :
                      unit.deps[j].ptid = dep.ptid
         IN IF happens_before_in_task(unit.deps[i], dep)
            THEN [unit EXCEPT !.deps[i] = dep]
            ELSE unit

\* TaskState.create
TaskState_create(ptid) ==
    [unit |-> ExecUnit_create(ptid), nseq |-> 0, last_unit |-> <<>>,
     stack |-> <<>>, stack_mem |-> {},
     locks_r |-> EmptyMap, locks_w |-> EmptyMap,
     trans_r |-> EmptyMap, trans_w |-> EmptyMap]

\* ExecAnalyzer.__init__: task 0 holds system information.  console keeps
\* the RACE entries written by _record_race.
NewExecAnalyzer ==
    [tasks |-> (0 :> TaskState_create(0)), cells |-> EmptyMap,
     races |-> EmptyMap, console |-> <<>>, mem_pcpus |-> {},
     async_slots |-> EmptyMap, err |-> FALSE]

\* ExecAnalyzer._log_ctxt_enter_get_task for a direct context (slot None),
\* then the check of _log_ctxt_direct_enter
log_ctxt_direct_enter(a, ptid, hval) ==
    LET fresh == ptid \notin DOMAIN a.tasks
        task == IF fresh THEN TaskState_create(ptid) ELSE a.tasks[ptid]
    IN IF ~fresh /\ task.unit.ctxt # -1 THEN Raise(a)
       ELSE IF task.unit.clk # 0 THEN Raise(a)
       ELSE LET u1 == IF task.last_unit # <<>>
                      THEN add_dep(task.unit, task.last_unit[1])
                      ELSE task.unit
                u2 == [u1 EXCEPT !.clk = 0, !.seq = task.nseq, !.ctxt = hval]
                t2 == [task EXCEPT !.unit = u2, !.nseq = @ + 1]
            IN IF u2.base # <<>> THEN Raise(a)
               ELSE [a EXCEPT !.tasks = MapPut(a.tasks, ptid, t2)]

\* ExecAnalyzer._log_ctxt_direct_exit: _log_ctxt_exit_get_task, the check
\* of the base, _log_ctxt_exit_put_task with slot None
log_ctxt_direct_exit(a, ptid, hval) ==
    IF ptid \notin DOMAIN a.tasks THEN Raise(a)
    ELSE LET task == a.tasks[ptid]
         IN IF task.unit.ctxt # hval THEN Raise(a)
            ELSE IF task.unit.base # <<>> THEN Raise(a)
            ELSE [a EXCEPT !.tasks[ptid] =
                     [task EXCEPT !.last_unit = <<task.unit>>,
                                  !.unit = [task.unit EXCEPT !.clk = 0,
                                                             !.ctxt = -1,
                                                             !.deps = <<>>]]]

\* iterate_log: "from now on, we have a task" and "task.unit.clk += 1"
with_unit(a, ptid) ==
    IF ptid \notin DOMAIN a.tasks THEN Raise(a)
    ELSE [a EXCEPT !.tasks[ptid].unit.clk = @ + 1]

\* ExecAnalyzer.log_exec_func_enter
log_exec_func_enter(a, ptid, hval) ==
    [a EXCEPT !.tasks[ptid].stack = Append(@, hval)]

\* ExecAnalyzer.log_exec_func_exit; stack[-1] of an empty stack raises
log_exec_func_exit(a, ptid, hval) ==
    LET stack == a.tasks[ptid].stack
    IN IF stack = <<>> THEN Raise(a)
       ELSE IF Last(stack) # hval THEN Raise(a)
       ELSE [a EXCEPT !.tasks[ptid].stack = Front(stack)]

\* ExecAnalyzer._chk_exec_inst_on_stack
chk_exec_inst_on_stack(a, ptid, hval) ==
    /\ a.tasks[ptid].stack # <<>>
    /\ Last(a.tasks[ptid].stack) = InstFunc(hval)

\* ExecAnalyzer.race_blacklist
ExecAnalyzer_race_blacklist(a1, a2) ==
    \E i \in RACE_BLACKLIST :
        IsSubstring(i, get_locs(a1.hval)) \/ IsSubstring(i, get_locs(a2.hval))

\* ExecAnalyzer._record_race
record_race(a, a1, a2, addr) ==
    LET pair == <<a1.hval, a2.hval>>
    IN [a EXCEPT !.console = Append(@, [src |-> a1, dst |-> a2, addr |-> addr]),
                 !.races = IF pair \in DOMAIN a.races
                           THEN [a.races EXCEPT ![pair] = @ + 1]
                           ELSE MapPut(a.races, pair, 1)]

MemAccess(hval, unit, locks, trans) ==
    [hval |-> hval, unit |-> unit, sync_locks |-> locks, sync_trans |-> trans]

\* the tests that precede the report in the reader / writer loops
BothInterruptAna(another, access) ==
    /\ from_ptid(access.unit.ptid) # "TASK"
    /\ from_ptid(another.unit.ptid) # "TASK"

Candidate(another, access) ==
    /\ ~BothInterruptAna(another, access)
    /\ ~ExecUnit_hb(another.unit, access.unit)
    /\ another.sync_locks \cap access.sync_locks = {}

RECURSIVE log_against(_, _, _, _, _)
\* "for ptid, vals in d.items()": rw is TRUE for the loops that pair a read
\* with a write, FALSE for the writer-writer loop
log_against(a, d, access, addr, rw) ==
    IF d = <<>> THEN a
    ELSE LET another == Last(Head(d).accs)
             a1 == IF Head(d).ptid = access.unit.ptid THEN a
                   ELSE IF ~Candidate(another, access) THEN a
                   ELSE IF rw
                   THEN IF another.sync_trans \cap access.sync_trans = {}
                           /\ ~ExecAnalyzer_race_blacklist(another, access)
                        THEN record_race(a, another, access, addr)
                        ELSE a
                   ELSE record_race(a, another, access, addr)
         IN log_against(a1, Tail(d), access, addr, rw)

\* ExecAnalyzer._log_mem_cell_reader
log_mem_cell_reader(a, ptid, hval, addr) ==
    LET task == a.tasks[ptid]
    IN IF addr \in task.stack_mem \/ addr \in a.mem_pcpus THEN a
       ELSE LET cell0 == IF addr \in DOMAIN a.cells THEN a.cells[addr]
                         ELSE VizMemCell
                cell == [cell0 EXCEPT !.readers = WithKey(@, ptid)]
                access == MemAccess(hval, task.unit, lockset_r(task),
                                    transet_r(task))
                a1 == log_against(a, cell.writers, access, addr, TRUE)
            IN [a1 EXCEPT !.cells = MapPut(a.cells, addr,
                    [cell EXCEPT !.readers = AppendAccess(@, ptid, access)])]

\* ExecAnalyzer._log_mem_cell_writer
log_mem_cell_writer(a, ptid, hval, addr) ==
    LET task == a.tasks[ptid]
    IN IF addr \in task.stack_mem \/ addr \in a.mem_pcpus THEN a
       ELSE LET cell0 == IF addr \in DOMAIN a.cells THEN a.cells[addr]
                         ELSE VizMemCell
                cell == [cell0 EXCEPT !.writers = WithKey(@, ptid)]
                access == MemAccess(hval, task.unit, lockset_w(task),
                                    transet_w(task))
                a1 == log_against(a, cell.readers, access, addr, TRUE)
                a2 == log_against(a1, cell.writers, access, addr, FALSE)
            IN [a2 EXCEPT !.cells = MapPut(a.cells, addr,
                    [cell EXCEPT !.writers = AppendAccess(@, ptid, access)])]

RECURSIVE log_read_bytes(_, _, _, _, _, _)
log_read_bytes(a, ptid, hval, addr, i, size) ==
    IF i = size THEN a
    ELSE log_read_bytes(log_mem_cell_reader(a, ptid, hval, addr + i),
                        ptid, hval, addr, i + 1, size)

RECURSIVE log_write_bytes(_, _, _, _, _, _)
log_write_bytes(a, ptid, hval, addr, i, size) ==
    IF i = size THEN a
    ELSE log_write_bytes(log_mem_cell_writer(a, ptid, hval, addr + i),
                         ptid, hval, addr, i + 1, size)

\* ExecAnalyzer.log_mem_read
log_mem_read(a, ptid, hval, addr, size) ==
    IF ~chk_exec_inst_on_stack(a, ptid, hval) THEN Raise(a)
    ELSE log_read_bytes(a, ptid, hval, addr, 0, size)

\* ExecAnalyzer.log_mem_write
log_mem_write(a, ptid, hval, addr, size) ==
    IF ~chk_exec_inst_on_stack(a, ptid, hval) THEN Raise(a)
    ELSE log_write_bytes(a, ptid, hval, addr, 0, size)

---------------------------------------------------------------------------
(* ExecAnalyzer: registered callbacks, their contexts, and locks *)

AsyncSlot(func, unit) ==
    [func |-> func, unit |-> unit, others |-> <<>>, serving |-> 0,
     host |-> <<>>]

\* ExecAnalyzer._log_async_register
log_async_register(a, ptid, hval, func) ==
    LET unit == a.tasks[ptid].unit
    IN IF hval \notin DOMAIN a.async_slots
       THEN [a EXCEPT !.async_slots = MapPut(@, hval, AsyncSlot(func, unit))]
       ELSE IF a.async_slots[hval].func # 0 THEN Raise(a)
       ELSE [a EXCEPT !.async_slots[hval].func = func,
                      !.async_slots[hval].unit = unit]

RECURSIVE add_deps(_, _)
\* "for item in slot.others: task.unit.add_dep(item)"
add_deps(unit, others) ==
    IF others = <<>> THEN unit
    ELSE add_deps(add_dep(unit, Head(others)), Tail(others))

\* ExecAnalyzer._log_ctxt_indirect_enter: _log_ctxt_enter_get_task with a
\* slot takes the task over from a unit that is still tracing, keeping the
\* TaskState (call stack, locks) and replacing only its unit
log_ctxt_indirect_enter(a, ptid, hval, func) ==
    IF hval \notin DOMAIN a.async_slots THEN Raise(a)
    ELSE IF a.async_slots[hval].func # func THEN Raise(a)
    ELSE LET slot == a.async_slots[hval]
             fresh == ptid \notin DOMAIN a.tasks
             task == IF fresh THEN TaskState_create(ptid) ELSE a.tasks[ptid]
             steal == ~fresh /\ task.unit.ctxt # -1
             host == IF fresh THEN slot.host
                     ELSE IF steal THEN <<task.unit>> ELSE <<>>
             u0 == IF steal THEN add_dep(ExecUnit_create(ptid), task.unit)
                   ELSE task.unit
             u1 == IF task.last_unit # <<>> THEN add_dep(u0, task.last_unit[1])
                   ELSE u0
             u2 == [u1 EXCEPT !.clk = 0, !.seq = task.nseq, !.ctxt = hval]
             u3 == add_deps([u2 EXCEPT !.base = <<slot.unit>>], slot.others)
             t2 == [task EXCEPT !.unit = u3, !.nseq = @ + 1]
         IN IF u0.clk # 0 THEN Raise(a)
            ELSE IF u2.base # <<>> THEN Raise(a)
            ELSE [a EXCEPT !.tasks = MapPut(a.tasks, ptid, t2),
                           !.async_slots[hval] =
                               [slot EXCEPT !.host = host, !.func = 0,
                                            !.serving = func,
                                            !.others = <<>>]]

\* ExecAnalyzer._log_ctxt_indirect_exit
log_ctxt_indirect_exit(a, ptid, hval, func) ==
    IF ptid \notin DOMAIN a.tasks THEN Raise(a)
    ELSE IF a.tasks[ptid].unit.ctxt # hval THEN Raise(a)
    ELSE IF hval \notin DOMAIN a.async_slots THEN Raise(a)
    ELSE IF a.async_slots[hval].serving # func THEN Raise(a)
    ELSE IF a.tasks[ptid].unit.base = <<>> THEN Raise(a)
    ELSE LET task == a.tasks[ptid]
             slot == a.async_slots[hval]
             done == [task.unit EXCEPT !.base = <<>>, !.clk = 0, !.ctxt = -1,
                                       !.deps = <<>>]
         IN [a EXCEPT !.tasks[ptid] =
                          [task EXCEPT !.last_unit = <<task.unit>>,
                                       !.unit = IF slot.host # <<>>
                                                THEN slot.host[1] ELSE done],
                      !.async_slots[hval] =
                          [slot EXCEPT !.serving = 0, !.host = <<>>]]

\* ExecAnalyzer.log_sync_gen_lock: the lock goes into task.sync_locks
log_sync_gen_lock(a, ptid, info, lock) ==
    LET task == a.tasks[ptid]
        depth == IF is_rw(info) THEN depth_of(task.locks_w, lock)
                 ELSE depth_of(task.locks_r, lock)
    IN IF is_try(info) /\ ~is_succ(info) THEN a
       ELSE IF depth # 0 THEN Raise(a)
       ELSE IF is_rw(info)
       THEN [a EXCEPT !.tasks[ptid].locks_w = add_lock(@, lock)]
       ELSE [a EXCEPT !.tasks[ptid].locks_r = add_lock(@, lock)]

\* ExecAnalyzer.log_sync_gen_unlock
log_sync_gen_unlock(a, ptid, info, lock) ==
    LET task == a.tasks[ptid]
        depth == IF is_rw(info) THEN depth_of(task.locks_w, lock)
                 ELSE depth_of(task.locks_r, lock)
    IN IF is_try(info) /\ ~is_succ(info) THEN a
       ELSE IF depth # 1 THEN Raise(a)
       ELSE IF is_rw(info)
       THEN [a EXCEPT !.tasks[ptid].locks_w = del_lock(@, lock)]
       ELSE [a EXCEPT !.tasks[ptid].locks_r = del_lock(@, lock)]

\* ExecAnalyzer.log_sync_rcu_lock: only the writer side cannot nest
log_sync_rcu_lock(a, ptid, info, lock) ==
    LET task == a.tasks[ptid]
    IN IF is_try(info) /\ ~is_succ(info) THEN a
       ELSE IF is_rw(info)
       THEN IF depth_of(task.locks_w, lock) # 0 THEN Raise(a)
            ELSE [a EXCEPT !.tasks[ptid].locks_w = add_lock(@, lock)]
       ELSE [a EXCEPT !.tasks[ptid].locks_r = add_lock(@, lock)]

\* ExecAnalyzer.log_sync_rcu_unlock
log_sync_rcu_unlock(a, ptid, info, lock) ==
    LET task == a.tasks[ptid]
        depth == IF is_rw(info) THEN depth_of(task.locks_w, lock)
                 ELSE depth_of(task.locks_r, lock)
    IN IF is_try(info) /\ ~is_succ(info) THEN a
       ELSE IF depth < 1 THEN Raise(a)
       ELSE IF is_rw(info)
       THEN [a EXCEPT !.tasks[ptid].locks_w = del_lock(@, lock)]
       ELSE [a EXCEPT !.tasks[ptid].locks_r = del_lock(@, lock)]

\* "lock_meta = LogMeta(meta.ptid, (1 << 2 | 1 << 0), meta.hval)"
RcuLockInfo == 5

\* ExecAnalyzer.log_ctxt_rcu_enter: the context enter, then the lock
log_ctxt_rcu_enter(a, ptid, hval, func) ==
    LET r == log_ctxt_indirect_enter(a, ptid, hval, func)
    IN IF r.err THEN r
       ELSE log_sync_rcu_lock(r, ptid, RcuLockInfo, DART_LOCK_ID_RCU)

\* ExecAnalyzer.log_ctxt_rcu_exit: the unlock, then the context exit
log_ctxt_rcu_exit(a, ptid, hval, func) ==
    LET r == IF ptid \in DOMAIN a.tasks
             THEN log_sync_rcu_unlock(a, ptid, RcuLockInfo, DART_LOCK_ID_RCU)
             ELSE a
    IN IF r.err THEN r ELSE log_ctxt_indirect_exit(r, ptid, hval, func)

\* ExecAnalyzer.log_exec_background: the unit of the task and the unit kept
\* in slot.host change places
log_exec_background(a, ptid, hval) ==
    IF hval \notin DOMAIN a.async_slots THEN Raise(a)
    ELSE IF a.async_slots[hval].host = <<>> THEN Raise(a)
    ELSE IF ptid \notin DOMAIN a.tasks THEN Raise(a)
    ELSE [a EXCEPT !.tasks[ptid].unit = a.async_slots[hval].host[1],
                   !.async_slots[hval].host = <<a.tasks[ptid].unit>>]

\* ExecAnalyzer.log_exec_foreground: the same switch
log_exec_foreground(a, ptid, hval) ==
    IF hval \notin DOMAIN a.async_slots THEN Raise(a)
    ELSE IF a.async_slots[hval].host = <<>> THEN Raise(a)
    ELSE IF ptid \notin DOMAIN a.tasks THEN Raise(a)
    ELSE [a EXCEPT !.tasks[ptid].unit = a.async_slots[hval].host[1],
                   !.async_slots[hval].host = <<a.tasks[ptid].unit>>]

---------------------------------------------------------------------------
(* VizRuntime._process: one iteration of the loop over the ledger *)

\* "task = self.tasks[ptid]; unit = task.cur; unit.clk += 1"
HasCur(rt, ptid) == ptid \in DOMAIN rt.tasks /\ rt.tasks[ptid].stack # <<>>

Tick(rt, ptid) ==
    [rt EXCEPT !.tasks[ptid].children[CurSeq(rt.tasks[ptid]) + 1].clk = @ + 1]

\* every point that holds an item
ItemPoints ==
    UNION {UNION {{VizPoint(p, s - 1, k - 1) :
                      k \in 1..Len(tasks[p].children[s].children)} :
                  s \in 1..Len(tasks[p].children)} :
           p \in DOMAIN tasks}

ItemAt(point) == get_item(RT, point)

\* units entered and memory accesses made so far by task p
UnitsOf(p) == IF p \in DOMAIN tasks THEN tasks[p].nseq ELSE 0
AccessesOf(p) ==
    Cardinality({q \in ItemPoints :
        q.ptid = p /\ ItemAt(q).kind \in {"MemRead", "MemWrite"}})

\* VizLockMap.__init__ / LockMap.__init__: two empty submaps; ret is the
\* value the last add_lock_* / del_lock_* call returned
NewLockMap == [locks_r |-> EmptyMap, locks_w |-> EmptyMap, ret |-> 0]

\* the state after construction (VizRuntime.__init__, ExecAnalyzer.__init__)
\* and the reading of the ledger header, for a ledger of max records in
\* which a task enters at most units units
StartWith(max, units) ==
    /\ n = max
    /\ nunit = units
    /\ tasks = EmptyMap
    /\ links = <<>>
    /\ forks = <<>>
    /\ slots_fork = EmptyMap
    /\ joins = <<>>
    /\ slots_join = EmptyMap
    /\ slots_queue = EmptyMap
    /\ slots_order = EmptyMap
    /\ mem_info_heap = EmptyMap
    /\ mem_info_pcpu = EmptyMap
    /\ cells = EmptyMap
    /\ races = <<>>
    /\ cache_hb = EmptyMap
    /\ count = 0
    /\ fatal = FALSE
    /\ nrec = 0
    /\ an = NewExecAnalyzer
    /\ result = {}
    /\ lockmap = NewLockMap

Start(max) == StartWith(max, MaxUnits)

Init == Start(MaxRecords)
InitCtxt == Start(MaxCtxtRecords)
InitLoop == Start(MaxLoopRecords)
InitJoin == Start(MaxJoinRecords)

\* the record was consumed: either the handler returned, or an assertion or
\* exception ended the run
Commit(r) ==
    /\ nrec' = nrec + 1
    /\ IF r.err
       THEN /\ fatal' = TRUE
            /\ UNCHANGED <<tasks, links, forks, slots_fork, joins, slots_join,
                           slots_queue, slots_order, mem_info_heap,
                           mem_info_pcpu, cells, races, cache_hb, count>>
       ELSE /\ tasks' = r.tasks
            /\ links' = r.links
            /\ forks' = r.forks
            /\ slots_fork' = r.slots_fork
            /\ joins' = r.joins
            /\ slots_join' = r.slots_join
            /\ slots_queue' = r.slots_queue
            /\ slots_order' = r.slots_order
            /\ mem_info_heap' = r.mem_info_heap
            /\ mem_info_pcpu' = r.mem_info_pcpu
            /\ cells' = r.cells
            /\ races' = r.races
            /\ cache_hb' = r.cache_hb
            /\ count' = r.count
            /\ UNCHANGED fatal
    /\ UNCHANGED <<an, n, nunit, result, lockmap>>

\* "for i in range(n)": the loop of _process is still consuming records
Running == ~fatal /\ nrec < n

\* the exploration enters at most nunit units and makes at most
\* MaxAccesses memory accesses on one task
MayEnter(ptid) == Running /\ UnitsOf(ptid) < nunit
MayAccess(ptid) == Running /\ AccessesOf(ptid) < MaxAccesses

\* a record handled after the unit lookup and the clock increment
OnUnit(ptid, r) == IF HasCur(RT, ptid) THEN r ELSE Raise(RT)

CtxtSyscallEnter(ptid, hval) ==
    /\ MayEnter(ptid)
    /\ Commit(handle_ctxt_enter(RT, ptid, "SYSCALL", hval))

CtxtSyscallExit(ptid, hval) ==
    /\ Running
    /\ Commit(handle_ctxt_exit(RT, ptid, "SYSCALL", hval))

MemRead(ptid, hval, addr, size) ==
    /\ MayAccess(ptid)
    /\ Commit(OnUnit(ptid, handle_mem_read(Tick(RT, ptid), ptid, hval, addr, size)))

MemWrite(ptid, hval, addr, size) ==
    /\ MayAccess(ptid)
    /\ Commit(OnUnit(ptid, handle_mem_write(Tick(RT, ptid), ptid, hval, addr, size)))

AsyncWorkRegister(ptid, hval, func) ==
    /\ Running
    /\ Commit(OnUnit(ptid, handle_fork_register(Tick(RT, ptid), ptid, "WORK", hval, func)))

CtxtWorkEnter(ptid, hval, func) ==
    /\ MayEnter(ptid)
    /\ Commit(handle_ctxt_enter_into_fork(RT, ptid, "WORK", hval, func))

CtxtWorkExit(ptid, hval, func) ==
    /\ Running
    /\ Commit(handle_ctxt_exit_from_fork(RT, ptid, "WORK", hval, func))

EventQueueNotify(ptid, hval) ==
    /\ Running
    /\ Commit(OnUnit(ptid, handle_queue_notify(Tick(RT, ptid), ptid, "WQ", hval)))

EventQueueArrive(ptid, hval) ==
    /\ Running
    /\ Commit(OnUnit(ptid, handle_queue_arrive(Tick(RT, ptid), ptid, "WQ", hval)))

EventWaitArrive(ptid, hval, func, head) ==
    /\ Running
    /\ Commit(OnUnit(ptid, handle_join_arrive(Tick(RT, ptid), ptid, "WAIT_NOTIFY",
                                              hval, func, head)))

EventWaitPass(ptid, hval, func) ==
    /\ Running
    /\ Commit(OnUnit(ptid, handle_join_pass(Tick(RT, ptid), ptid, "WAIT_NOTIFY",
                                            hval, func)))

EventWaitNotifyEnter(ptid, hval, func) ==
    /\ MayEnter(ptid)
    /\ Commit(handle_ctxt_enter_into_join(RT, ptid, "WAIT_NOTIFY", hval, func))

EventWaitNotifyExit(ptid, hval, func) ==
    /\ Running
    /\ Commit(handle_ctxt_exit_from_join(RT, ptid, "WAIT_NOTIFY", hval, func))

SyncGenLock(ptid, info, lock) ==
    /\ Running
    /\ Commit(OnUnit(ptid, handle_lock_acquire(Tick(RT, ptid), ptid, "GEN", info, lock)))

SyncGenUnlock(ptid, info, lock) ==
    /\ Running
    /\ Commit(OnUnit(ptid, handle_lock_release(Tick(RT, ptid), ptid, "GEN", info, lock)))

SyncSeqLock(ptid, info, lock) ==
    /\ Running
    /\ Commit(OnUnit(ptid, handle_tran_acquire(Tick(RT, ptid), ptid, "SEQ", info, lock)))

SyncSeqUnlock(ptid, info, lock) ==
    /\ Running
    /\ Commit(OnUnit(ptid, handle_tran_release(Tick(RT, ptid), ptid, "SEQ", info, lock)))

AsyncWorkCancel(ptid, hval, func) ==
    /\ Running
    /\ Commit(OnUnit(ptid, handle_fork_cancel(Tick(RT, ptid), ptid, "WORK", hval, func)))

MemAlloc(ptid, kind, addr, size) ==
    /\ Running
    /\ Commit(OnUnit(ptid, handle_mem_alloc(Tick(RT, ptid), ptid, kind, addr, size)))

MemFree(ptid, kind, addr) ==
    /\ Running
    /\ Commit(OnUnit(ptid, handle_mem_free(Tick(RT, ptid), ptid, kind, addr)))

ExecBackground(ptid) ==
    /\ Running
    /\ Commit(VizTask_bg(RT, ptid))

ExecForeground(ptid) ==
    /\ Running
    /\ Commit(VizTask_fg(RT, ptid))

ExecFuncEnter(ptid, hval, addr) ==
    /\ Running
    /\ Commit(OnUnit(ptid, handle_func_enter(Tick(RT, ptid), ptid, hval, addr)))

ExecFuncExit(ptid, hval, addr) ==
    /\ Running
    /\ Commit(OnUnit(ptid, handle_func_exit(Tick(RT, ptid), ptid, hval, addr)))

OrderObjDeposit(ptid, addr, objv) ==
    /\ Running
    /\ Commit(OnUnit(ptid, handle_order_deposit(Tick(RT, ptid), ptid, "OBJ",
                                                addr, objv)))

OrderObjConsume(ptid, addr) ==
    /\ Running
    /\ Commit(OnUnit(ptid, handle_order_consume(Tick(RT, ptid), ptid, "OBJ", addr)))

SyncRcuLock(ptid, info, lock) ==
    /\ Running
    /\ Commit(OnUnit(ptid, handle_lock_acquire(Tick(RT, ptid), ptid, "RCU", info, lock)))

SyncRcuUnlock(ptid, info, lock) ==
    /\ Running
    /\ Commit(OnUnit(ptid, handle_lock_release(Tick(RT, ptid), ptid, "RCU", info, lock)))

---------------------------------------------------------------------------
(* Records handled by ExecAnalyzer.iterate_log *)

\* the record was consumed by the analyzer: either the handler returned, or
\* a DartAssertFailure ended the run
AnaCommit(r) ==
    /\ nrec' = nrec + 1
    /\ IF r.err THEN fatal' = TRUE /\ UNCHANGED an
                ELSE an' = r /\ UNCHANGED fatal
    /\ UNCHANGED <<tasks, links, forks, slots_fork, joins, slots_join,
                   slots_queue, slots_order, mem_info_heap, mem_info_pcpu,
                   cells, races, cache_hb, count, n, nunit, result, lockmap>>

\* units entered and memory accesses made so far by task p of the analyzer
AnaUnitsOf(p) == IF p \in DOMAIN an.tasks THEN an.tasks[p].nseq ELSE 0
AnaAccessesOf(p) ==
    Cardinality({coordinate(acc.unit) :
        acc \in {c \in UNION {Accesses(an.cells[x].readers)
                                   \cup Accesses(an.cells[x].writers) :
                               x \in DOMAIN an.cells} : c.unit.ptid = p}})

\* a record handled after the task lookup and the clock increment
AnaOnUnit(ptid, r) == IF with_unit(an, ptid).err THEN Raise(an) ELSE r

AnaCtxtSyscallEnter(ptid, hval) ==
    /\ Running /\ AnaUnitsOf(ptid) < MaxUnits
    /\ AnaCommit(log_ctxt_direct_enter(an, ptid, hval))

AnaCtxtSyscallExit(ptid, hval) ==
    /\ Running
    /\ AnaCommit(log_ctxt_direct_exit(an, ptid, hval))

AnaExecFuncEnter(ptid, hval) ==
    /\ Running
    /\ AnaCommit(AnaOnUnit(ptid,
           log_exec_func_enter(with_unit(an, ptid), ptid, hval)))

AnaExecFuncExit(ptid, hval) ==
    /\ Running
    /\ AnaCommit(AnaOnUnit(ptid,
           log_exec_func_exit(with_unit(an, ptid), ptid, hval)))

AnaMemRead(ptid, hval, addr, size) ==
    /\ Running /\ AnaAccessesOf(ptid) < MaxAccesses
    /\ AnaCommit(AnaOnUnit(ptid,
           log_mem_read(with_unit(an, ptid), ptid, hval, addr, size)))

AnaMemWrite(ptid, hval, addr, size) ==
    /\ Running /\ AnaAccessesOf(ptid) < MaxAccesses
    /\ AnaCommit(AnaOnUnit(ptid,
           log_mem_write(with_unit(an, ptid), ptid, hval, addr, size)))

AnaAsyncWorkRegister(ptid, hval, func) ==
    /\ Running
    /\ AnaCommit(AnaOnUnit(ptid,
           log_async_register(with_unit(an, ptid), ptid, hval, func)))

AnaCtxtWorkEnter(ptid, hval, func) ==
    /\ Running /\ AnaUnitsOf(ptid) < MaxUnits
    /\ AnaCommit(log_ctxt_indirect_enter(an, ptid, hval, func))

AnaCtxtWorkExit(ptid, hval, func) ==
    /\ Running
    /\ AnaCommit(log_ctxt_indirect_exit(an, ptid, hval, func))

AnaSyncGenLock(ptid, info, lock) ==
    /\ Running
    /\ AnaCommit(AnaOnUnit(ptid,
           log_sync_gen_lock(with_unit(an, ptid), ptid, info, lock)))

AnaSyncGenUnlock(ptid, info, lock) ==
    /\ Running
    /\ AnaCommit(AnaOnUnit(ptid,
           log_sync_gen_unlock(with_unit(an, ptid), ptid, info, lock)))

AnaAsyncRcuRegister(ptid, hval, func) ==
    /\ Running
    /\ AnaCommit(AnaOnUnit(ptid,
           log_async_register(with_unit(an, ptid), ptid, hval, func)))

AnaCtxtRcuEnter(ptid, hval, func) ==
    /\ Running /\ AnaUnitsOf(ptid) < MaxUnits
    /\ AnaCommit(log_ctxt_rcu_enter(an, ptid, hval, func))

AnaCtxtRcuExit(ptid, hval, func) ==
    /\ Running
    /\ AnaCommit(log_ctxt_rcu_exit(an, ptid, hval, func))

\* "from now on, we have a task", then the background / foreground switch
AnaExecBackground(ptid, hval) ==
    /\ Running
    /\ AnaCommit(IF ptid \notin DOMAIN an.tasks THEN Raise(an)
                 ELSE log_exec_background(an, ptid, hval))

AnaExecForeground(ptid, hval) ==
    /\ Running
    /\ AnaCommit(IF ptid \notin DOMAIN an.tasks THEN Raise(an)
                 ELSE log_exec_foreground(an, ptid, hval))

---------------------------------------------------------------------------
(* Ledgers explored *)

\* two tasks, as in scenarios S2 to S6
Ptids == {1, 2}
\* the address written in scenario S2, and the access sizes tried
Addrs == {512}
Sizes == {1, 4}

\* scenario S2: task 1 runs instruction 20 in syscall 100, task 2 runs
\* instruction 21 in syscall 101
NextMem ==
    \/ \E p \in Ptids : CtxtSyscallEnter(p, 99 + p)
    \/ \E p \in Ptids : CtxtSyscallExit(p, 99 + p)
    \/ \E p \in Ptids, a \in Addrs, s \in Sizes : MemRead(p, 19 + p, a, s)
    \/ \E p \in Ptids, a \in Addrs, s \in Sizes : MemWrite(p, 19 + p, a, s)

SpecMem == Init /\ [][NextMem]_vars

\* scenario S4: work item 777 with callback 0x300, accesses to 0x400
NextFork ==
    \/ \E p \in Ptids : CtxtSyscallEnter(p, 100)
    \/ \E p \in Ptids : CtxtSyscallExit(p, 100)
    \/ \E p \in Ptids : AsyncWorkRegister(p, 777, 768)
    \/ \E p \in Ptids : CtxtWorkEnter(p, 777, 768)
    \/ \E p \in Ptids : CtxtWorkExit(p, 777, 768)
    \/ \E p \in Ptids : MemWrite(p, 30, 1024, 4)
    \/ \E p \in Ptids : MemRead(p, 31, 1024, 4)

SpecFork == Init /\ [][NextFork]_vars

\* the analyzer on scenario S1 (function 10 entered at 0x1000, accesses to
\* 0xA0), run by tasks 1 and 2 and by a ptid in HARDIRQ context; instruction 11
\* reads, instruction 12 writes, and instruction 13 writes from a
\* deny-listed location
AnaPtids == {1, 2, HardirqBit + 3}
NextAna ==
    \/ \E p \in AnaPtids : AnaCtxtSyscallEnter(p, 100)
    \/ \E p \in AnaPtids : AnaCtxtSyscallExit(p, 100)
    \/ \E p \in AnaPtids : AnaExecFuncEnter(p, 10)
    \/ \E p \in AnaPtids : AnaExecFuncExit(p, 10)
    \/ \E p \in AnaPtids : AnaMemRead(p, 11, 160, 1)
    \/ \E p \in AnaPtids, i \in {12, 13} : AnaMemWrite(p, i, 160, 1)

SpecAna == Init /\ [][NextAna]_vars

---------------------------------------------------------------------------
(* Vocabulary of the properties *)

\* the writes and the reads stored for one byte
Writes(addr) == Accesses(cells[addr].writers)
Reads(addr) == Accesses(cells[addr].readers)

\* the analyzer's happens_before query, asked in the current state
HB(a, b) == happens_before(RT, a, b).res

\* a race between the two accesses is in the report
Reported(a, b) ==
    \E i \in 1..Len(races) :
        \/ races[i].src = a /\ races[i].dst = b
        \/ races[i].src = b /\ races[i].dst = a

UnitOf(point) == get_unit(RT, point)

\* the unit of w exited before the unit of r was entered
ExitedBefore(w, r) ==
    /\ UnitOf(w.point).exited
    /\ Last(UnitOf(w.point).children).gcnt < UnitOf(r.point).children[1].gcnt

\* the unit of r runs the work item that the unit of w registered
ForkedFrom(w, r) ==
    /\ w.point.ptid # r.point.ptid
    /\ UnitOf(r.point).fork_from # NoSlot
    /\ forks[UnitOf(r.point).fork_from].kind = "WORK"
    /\ SameUnit(forks[UnitOf(r.point).fork_from].point, w.point)

RegisterPoint(r) == forks[UnitOf(r.point).fork_from].point

\* C1 as stated: register, then write, then exit; the callback reads
ForkScenarioWriteAfter(w, r) ==
    /\ ForkedFrom(w, r)
    /\ RegisterPoint(r).clk < w.point.clk
    /\ ExitedBefore(w, r)

\* write, then register, then exit; the callback reads
ForkScenarioWriteBefore(w, r) ==
    /\ ForkedFrom(w, r)
    /\ w.point.clk < RegisterPoint(r).clk
    /\ ExitedBefore(w, r)

\* C1 (as stated): when a unit registers a work item, then writes x, then
\* exits, and a unit of another task later enters the WORK context of that
\* item and reads x, the write happens before the read and no race between
\* the two is reported.
C1_WriteAfterRegisterOrdered ==
    \A x \in DOMAIN cells : \A w \in Writes(x), r \in Reads(x) :
        ForkScenarioWriteAfter(w, r) => HB(w.point, r.point) /\ ~Reported(w, r)

\* C1 (amended): the FORK edge leaves the register point, so the write is
\* ordered before the callback's read when it precedes the registration.
C1_WriteBeforeRegisterOrdered ==
    \A x \in DOMAIN cells : \A w \in Writes(x), r \in Reads(x) :
        ForkScenarioWriteBefore(w, r) => HB(w.point, r.point) /\ ~Reported(w, r)

C1_Witness ==
    \E x \in DOMAIN cells : \E w \in Writes(x), r \in Reads(x) :
        ForkScenarioWriteBefore(w, r)

---------------------------------------------------------------------------
(* Queues: scenario S5, queue 888, accesses to 0x500 *)

NextQueue ==
    \/ \E p \in Ptids : CtxtSyscallEnter(p, 100)
    \/ \E p \in Ptids : CtxtSyscallExit(p, 100)
    \/ \E p \in Ptids : EventQueueNotify(p, 888)
    \/ \E p \in Ptids : EventQueueArrive(p, 888)
    \/ \E p \in Ptids : MemWrite(p, 30, 1280, 1)
    \/ \E p \in Ptids : MemRead(p, 31, 1280, 1)

SpecQueue == Init /\ [][NextQueue]_vars

\* w, then the notify at nt in the same unit; later the arrive at a in a unit
\* of another task, then r in that unit
QueueScenario(w, nt, a, r) ==
    /\ ItemAt(nt).kind = "QueueNotify"
    /\ ItemAt(a).kind = "QueueArrive"
    /\ ItemAt(nt).hval = ItemAt(a).hval
    /\ SameUnit(w.point, nt) /\ w.point.clk < nt.clk
    /\ a.ptid # w.point.ptid
    /\ ItemAt(nt).gcnt < ItemAt(a).gcnt
    /\ SameUnit(a, r.point) /\ a.clk < r.point.clk

\* no other arrive on the same queue between the notify at nt and the arrive
\* at a: the arrive at a takes the slot that holds the notification
TakesNotification(nt, a) ==
    ~\E c \in ItemPoints :
        /\ ItemAt(c).kind = "QueueArrive"
        /\ ItemAt(c).hval = ItemAt(nt).hval
        /\ ItemAt(nt).gcnt < ItemAt(c).gcnt
        /\ ItemAt(c).gcnt < ItemAt(a).gcnt

\* C2 (as stated): a unit writes x and then notifies queue h; a unit of
\* another task later arrives at h and then reads x: the write happens
\* before the read and no race between them is reported, for the first and
\* for every additional notifier.
C2_NotifyArriveOrdered ==
    \A x \in DOMAIN cells : \A w \in Writes(x), r \in Reads(x) :
        \A nt \in ItemPoints, a \in ItemPoints :
            QueueScenario(w, nt, a, r)
                => HB(w.point, r.point) /\ ~Reported(w, r)

\* C2 (amended): the same, for the arrive that takes the slot holding the
\* notification, i.e. with no other arrive at h in between.
C2_ConsumingArriveOrdered ==
    \A x \in DOMAIN cells : \A w \in Writes(x), r \in Reads(x) :
        \A nt \in ItemPoints, a \in ItemPoints :
            QueueScenario(w, nt, a, r) /\ TakesNotification(nt, a)
                => HB(w.point, r.point) /\ ~Reported(w, r)

\* reached with an additional notifier: the notify at nt joined a slot that
\* another point had created
C2_Witness ==
    \E x \in DOMAIN cells : \E w \in Writes(x), r \in Reads(x) :
        \E nt \in ItemPoints, a \in ItemPoints :
            /\ QueueScenario(w, nt, a, r)
            /\ TakesNotification(nt, a)
            /\ ItemAt(nt).point # nt

---------------------------------------------------------------------------
(* Locks: scenarios S2 and S3, lock 0x500, accesses to 0x200 *)

\* SyncInfo values: writer (0b101) and reader (0b001), both succeeded
LockInfos == {5, 1}

NextLock ==
    \/ \E p \in Ptids : CtxtSyscallEnter(p, 100)
    \/ \E p \in Ptids, i \in LockInfos : SyncGenLock(p, i, 1280)
    \/ \E p \in Ptids, i \in LockInfos : SyncGenUnlock(p, i, 1280)
    \/ \E p \in Ptids : MemWrite(p, 20, 512, 1)
    \/ \E p \in Ptids : MemRead(p, 21, 512, 1)

SpecLock == Init /\ [][NextLock]_vars

\* by the items of its unit, point p lies between an acquire of the lock
\* (mode rw, type kind) and the next release of the same lock and mode
Held(p, lock, rw, kind) ==
    \E q \in ItemPoints :
        /\ SameUnit(p, q) /\ q.clk < p.clk
        /\ ItemAt(q).kind = "LockAcquire"
        /\ ItemAt(q).hval = lock
        /\ ItemAt(q).info = <<rw, kind>>
        /\ ~\E u \in ItemPoints :
               /\ SameUnit(p, u) /\ q.clk < u.clk /\ u.clk < p.clk
               /\ ItemAt(u).kind = "LockRelease"
               /\ ItemAt(u).hval = lock
               /\ ItemAt(u).info = <<rw, kind>>

HeldGenW(p, lock) == Held(p, lock, TRUE, "GEN")

RaceSet == SeqToSet(races)

\* C3: no reported race joins two accesses whose stored lockset snapshots
\* share a lock id; two writes by different tasks, each made between
\* SYNC_GEN_LOCK and SYNC_GEN_UNLOCK (info 0b101) of one lock, are not
\* reported as a race (scenario S3).
C3_SharedLockNoRace ==
    /\ \A r \in RaceSet : r.src.sync_locks \cap r.dst.sync_locks = {}
    /\ \A x \in DOMAIN cells : \A w1 \in Writes(x), w2 \in Writes(x) :
           (/\ w1.point.ptid # w2.point.ptid
            /\ HeldGenW(w1.point, 1280)
            /\ HeldGenW(w2.point, 1280)) => ~Reported(w1, w2)

\* scenario S3 has happened: the first task wrote under the lock and
\* released it, the second task has written under the lock
C3_Witness ==
    \E x \in DOMAIN cells : \E w1 \in Writes(x), w2 \in Writes(x) :
        /\ w1.point.ptid # w2.point.ptid
        /\ HeldGenW(w1.point, 1280)
        /\ HeldGenW(w2.point, 1280)
        /\ step(w1.point) \in ItemPoints
        /\ ItemAt(step(w1.point)).kind = "LockRelease"
        /\ ItemAt(w1.point).gcnt < ItemAt(w2.point).gcnt

---------------------------------------------------------------------------
(* Seqlocks: scenario S6, seqlock 0x700, accesses to 0x600 *)

NextSeq ==
    \/ \E p \in Ptids : CtxtSyscallEnter(p, 100)
    \/ \E p \in Ptids, i \in LockInfos : SyncSeqLock(p, i, 1792)
    \/ \E p \in Ptids, i \in LockInfos : SyncSeqUnlock(p, i, 1792)
    \/ \E p \in Ptids : MemWrite(p, 30, 1536, 1)
    \/ \E p \in Ptids : MemRead(p, 31, 1536, 1)

SpecSeq == Init /\ [][NextSeq]_vars

\* w was written under the seqlock in writer mode, r was read by another
\* task inside a reader section of the same seqlock
SeqScenario(w, r) ==
    /\ w.point.ptid # r.point.ptid
    /\ Held(w.point, 1792, TRUE, "SEQ")
    /\ Held(r.point, 1792, FALSE, "SEQ")

\* C4: a write made under seqlock t in writer mode and a read by another
\* task made between SYNC_SEQ_LOCK and SYNC_SEQ_UNLOCK of t in reader mode
\* are never reported as a race, whichever was processed first.
C4_SeqlockSuppressed ==
    \A x \in DOMAIN cells : \A w \in Writes(x), r \in Reads(x) :
        SeqScenario(w, r) => ~Reported(w, r)

\* both orders have happened: a protected write before the protected read
\* and another one after it
C4_Witness ==
    \E x \in DOMAIN cells : \E w1 \in Writes(x), w2 \in Writes(x), r \in Reads(x) :
        /\ SeqScenario(w1, r)
        /\ SeqScenario(w2, r)
        /\ ItemAt(w1.point).gcnt < ItemAt(r.point).gcnt
        /\ ItemAt(r.point).gcnt < ItemAt(w2.point).gcnt

---------------------------------------------------------------------------
(* Wait / notify: task 1 waits on event 999 (callback 0x900) and reads     *)
(* 0x400, task 2 writes 0x400 and runs the notifier                        *)

NextJoin ==
    \/ CtxtSyscallEnter(1, 100)
    \/ CtxtSyscallExit(1, 100)
    \/ EventWaitArrive(1, 999, 2304, 0)
    \/ EventWaitPass(1, 999, 2304)
    \/ EventWaitNotifyEnter(2, 999, 2304)
    \/ EventWaitNotifyExit(2, 999, 2304)
    \/ MemWrite(2, 30, 1024, 1)
    \/ MemRead(1, 31, 1024, 1)

SpecJoin == InitJoin /\ [][NextJoin]_vars

\* the HB graph itself: program order inside a unit, and the edges made by
\* link.  Past(S) adds the sources of the edges that end at or before a
\* point of S.
Past(S) ==
    S \cup {links[i].src : i \in {j \in 1..Len(links) :
                \E q \in S : SameUnit(links[j].dst, q)
                             /\ links[j].dst.clk <= q.clk}}

RECURSIVE PastClosure(_)
PastClosure(S) == IF Past(S) = S THEN S ELSE PastClosure(Past(S))

GraphHB(a, b) ==
    \E q \in PastClosure({b}) : SameUnit(a, q) /\ a.clk <= q.clk

\* the closing checks of the tasks alone
EndChecks_tasks_only ==
    /\ ~fatal
    /\ nrec = n
    /\ \A p \in DOMAIN tasks :
          /\ tasks[p].hold = -1
          /\ tasks[p].stack = <<>>
          /\ tasks[p].nseq = Len(tasks[p].children)
          /\ \A s \in 1..Len(tasks[p].children) :
                tasks[p].children[s].clk + 1 = Len(tasks[p].children[s].children)

\* the checks that close VizRuntime._process: with them passed, the run
\* ends without an assertion and the races are dumped
EndChecks ==
    /\ ~fatal
    /\ nrec = n
    /\ \A p \in DOMAIN tasks :
          /\ tasks[p].hold = -1
          /\ tasks[p].stack = <<>>
          /\ tasks[p].nseq = Len(tasks[p].children)
          /\ \A s \in 1..Len(tasks[p].children) :
                tasks[p].children[s].clk + 1 = Len(tasks[p].children[s].children)
    /\ DOMAIN slots_fork = {}
    /\ DOMAIN slots_join = {}
    /\ DOMAIN mem_info_pcpu = {}

\* C5: at the end of processing, no reported race has its two accesses
\* ordered, in either direction, by the final HB graph.
C5_ReportedRacesUnordered ==
    EndChecks =>
        \A r \in RaceSet :
            /\ ~GraphHB(r.src.point, r.dst.point)
            /\ ~GraphHB(r.dst.point, r.src.point)

\* the races appended by the record being processed
NewRaces == {races'[i] : i \in (Len(races) + 1)..Len(races')}

\* C6: a race is reported, when a new access is compared with a stored one,
\* only if the HB graph of that moment orders the two accesses in neither
\* direction.
C6_ReportedOnlyIfUnordered ==
    [][\A r \in NewRaces :
          /\ ~GraphHB(r.src.point, r.dst.point)'
          /\ ~GraphHB(r.dst.point, r.src.point)']_vars

\* the aggregate of VizRuntime.dump_races: races per (src, dst) instruction pair
RacePairs == {<<races[i].src.inst, races[i].dst.inst>> : i \in 1..Len(races)}
dump_races ==
    [key \in RacePairs |->
        Cardinality({i \in 1..Len(races) :
            <<races[i].src.inst, races[i].dst.inst>> = key})]

\* scenario S2: task 1 has written the four bytes at 0x200 with
\* instruction 20, task 2 has then done so with instruction 21, and no
\* other access was made
ScenarioS2 ==
    /\ AccessesOf(1) = 1
    /\ AccessesOf(2) = 1
    /\ \A x \in 512..515 :
          /\ x \in DOMAIN cells
          /\ \E w1 \in Writes(x), w2 \in Writes(x) :
                /\ w1.point.ptid = 1 /\ w1.inst = 20
                /\ w2.point.ptid = 2 /\ w2.inst = 21
                /\ ItemAt(w1.point).gcnt < ItemAt(w2.point).gcnt

\* C7: a pair (stored access, new access) is reported once, however many
\* bytes the two accesses share; in scenario S2 one race is reported and
\* the aggregate count of the pair (20, 21) is 1.
C7_PairReportedOnce ==
    /\ \A i, j \in 1..Len(races) :
          (races[i].src = races[j].src /\ races[i].dst = races[j].dst) => i = j
    /\ ScenarioS2 => /\ Len(races) = 1
                     /\ dump_races = (<<20, 21>> :> 1)

---------------------------------------------------------------------------
(* Races reported by either analyzer *)

\* the RACE entries written by the analyzer
AnaRaceSet == SeqToSet(an.console)

\* all the accesses stored for one byte by VizRuntime and by the analyzer
VizStored(x) ==
    IF x \in DOMAIN cells
    THEN Accesses(cells[x].readers) \cup Accesses(cells[x].writers)
    ELSE {}
AnaStored(x) ==
    IF x \in DOMAIN an.cells
    THEN Accesses(an.cells[x].readers) \cup Accesses(an.cells[x].writers)
    ELSE {}

\* the ptids that made a memory access
AccessingPtids ==
    {a.point.ptid : a \in UNION {VizStored(x) : x \in DOMAIN cells}}
    \cup {a.unit.ptid : a \in UNION {AnaStored(x) : x \in DOMAIN an.cells}}

\* the contexts of a reported pair: different ptids, one of them a task,
\* none a hard interrupt
ContextsAllowed(p, q) ==
    /\ p # q
    /\ from_ptid(p) = "TASK" \/ from_ptid(q) = "TASK"
    /\ from_ptid(p) # "HARDIRQ" /\ from_ptid(q) # "HARDIRQ"

\* C8: every reported race joins two accesses by different ptids to the
\* same byte, at least one of them in TASK context, none in HARDIRQ context
\* and none inside a unit of kind BLOCK; a ledger whose accesses all come
\* from one ptid yields no race.
C8_RaceInvariants ==
    /\ \A r \in RaceSet :
          /\ ContextsAllowed(r.src.point.ptid, r.dst.point.ptid)
          /\ {r.src, r.dst} \subseteq VizStored(r.addr)
          /\ UnitOf(r.src.point).kind # "BLOCK"
          /\ UnitOf(r.dst.point).kind # "BLOCK"
    /\ \A r \in AnaRaceSet :
          /\ ContextsAllowed(r.src.unit.ptid, r.dst.unit.ptid)
          /\ {r.src, r.dst} \subseteq AnaStored(r.addr)
    /\ Cardinality(AccessingPtids) <= 1 => races = <<>> /\ an.console = <<>>

\* the instruction has a source location that is an entry of the deny-list
DenyListed(inst) == \E l \in SeqToSet(InstInfo(inst)) : l \in RACE_BLACKLIST

\* C9: no reported race, read/write or write/write, has a source or a
\* destination instruction at a deny-listed location.
C9_NoDenyListedRace ==
    /\ \A r \in RaceSet : ~DenyListed(r.src.inst) /\ ~DenyListed(r.dst.inst)
    /\ \A r \in AnaRaceSet : ~DenyListed(r.src.hval) /\ ~DenyListed(r.dst.hval)

---------------------------------------------------------------------------
(* The memoised happens-before query as a relation on the existing points *)

\* C10: in every reachable state the analyzer's memoised happens_before
\* query is reflexive and transitive on the existing points.
C10_HBReflexiveTransitive ==
    /\ \A p \in ItemPoints : HB(p, p)
    /\ \A a \in ItemPoints, b \in ItemPoints, c \in ItemPoints :
          HB(a, b) /\ HB(b, c) => HB(a, c)

---------------------------------------------------------------------------
(* Contexts, call frames and background units: syscall 100, function 10    *)
(* entered at 0x1000                                                       *)

NextCtxt ==
    \/ \E p \in Ptids : CtxtSyscallEnter(p, 100)
    \/ \E p \in Ptids : CtxtSyscallExit(p, 100)
    \/ \E p \in Ptids : ExecFuncEnter(p, 10, 4096)
    \/ \E p \in Ptids : ExecFuncExit(p, 10, 4096)
    \/ \E p \in Ptids : ExecBackground(p)
    \/ \E p \in Ptids : ExecForeground(p)

SpecCtxt == InitCtxt /\ [][NextCtxt]_vars

\* every unit created so far, as <<ptid, seq>>
Units ==
    UNION {{<<p, s - 1>> : s \in 1..Len(tasks[p].children)} : p \in DOMAIN tasks}
UnitAt(u) == tasks[u[1]].children[u[2] + 1]

\* the ledger was consumed without a fatal error and a context is still open
EndsOpen == ~fatal /\ nrec = n /\ \E u \in Units : ~UnitAt(u).exited

\* C11: when a ledger is processed to the end and accepted, every unit has
\* exited with only its base frame on its call stack and every task has no
\* held unit, no live unit and nseq equal to its number of units; a ledger
\* that ends with a context still open is rejected.
C11_EndOfStreamClosed ==
    /\ EndChecks =>
          /\ \A u \in Units : UnitAt(u).exited /\ Len(UnitAt(u).stack) = 1
          /\ \A p \in DOMAIN tasks :
                /\ tasks[p].hold = -1
                /\ tasks[p].stack = <<>>
                /\ tasks[p].nseq = Len(tasks[p].children)
    /\ EndsOpen => ~EndChecks

\* an accepted ledger in which a unit called a function and returned and
\* some task ran two units
C11_Witness ==
    /\ EndChecks
    /\ \E q \in ItemPoints : ItemAt(q).kind = "FuncExit"
    /\ \E p \in DOMAIN tasks : Len(tasks[p].children) = 2

---------------------------------------------------------------------------
(* The end of the ledger: task 1 runs a syscall, registers and cancels     *)
(* work 0x700, waits on 0x900 and allocates at 0x400; a worker runs the    *)
(* registered work                                                         *)

MemKinds == {"HEAP", "PERCPU"}

NextEnd ==
    \/ CtxtSyscallEnter(1, 100)
    \/ CtxtSyscallExit(1, 100)
    \/ AsyncWorkRegister(1, 1792, 4096)
    \/ AsyncWorkCancel(1, 1792, 4096)
    \/ CtxtWorkEnter(2, 1792, 4096)
    \/ CtxtWorkExit(2, 1792, 4096)
    \/ EventWaitArrive(1, 999, 2304, 0)
    \/ EventWaitPass(1, 999, 2304)
    \/ \E k \in MemKinds : MemAlloc(1, k, 1024, 2)
    \/ \E k \in MemKinds : MemFree(1, k, 1024)

SpecEnd == Init /\ [][NextEnd]_vars

\* the items the last loop of _process flags: the allocation sites of the
\* objects still in mem_info_heap
Dangling == {mem_info_heap[a].site_alloc : a \in DOMAIN mem_info_heap}

\* the ledger was consumed without a fatal error
Consumed == ~fatal /\ nrec = n

\* the records of one kind handled so far, counted by their items
ItemCount(k) == Cardinality({q \in ItemPoints : ItemAt(q).kind = k})
MemCount(k, kind) ==
    Cardinality({q \in ItemPoints :
        ItemAt(q).kind = k /\ ItemAt(q).info = <<kind>>})

\* a fork-slot was registered and neither consumed by a context enter nor
\* cancelled; a join-slot arrived and was not passed; a region of a kind
\* was allocated and not freed
PendingFork ==
    ItemCount("ForkRegister") >
        Cardinality({i \in 1..Len(forks) : forks[i].users # <<>>})
        + ItemCount("ForkCancel")
PendingJoin == ItemCount("JoinArrive") > ItemCount("JoinPass")
Allocated(kind) == MemCount("MemAlloc", kind) > MemCount("MemFree", kind)

\* C12: a consumed ledger that leaves a fork-slot pending, a join-slot not
\* passed or a PERCPU region allocated is rejected by the closing checks;
\* HEAP regions left allocated do not reject it, they only flag their
\* allocation items as dangling.
C12_LeftoversAtEnd ==
    /\ Consumed /\ PendingFork => ~EndChecks
    /\ Consumed /\ PendingJoin => ~EndChecks
    /\ Consumed /\ Allocated("PERCPU") => ~EndChecks
    /\ Consumed /\ ~PendingFork /\ ~PendingJoin /\ ~Allocated("PERCPU")
          /\ (\A u \in Units : UnitAt(u).exited)
          => /\ EndChecks
             /\ Allocated("HEAP") <=> Dangling # {}
             /\ \A q \in Dangling :
                   ItemAt(q).kind = "MemAlloc" /\ ItemAt(q).info = <<"HEAP">>

\* an accepted ledger with a HEAP region left allocated, in which a
\* PERCPU region was allocated and freed and a work was cancelled
C12_Witness ==
    /\ EndChecks
    /\ Allocated("HEAP")
    /\ \E q \in ItemPoints : ItemAt(q).kind = "MemFree"
    /\ \E q \in ItemPoints : ItemAt(q).kind = "ForkCancel"

---------------------------------------------------------------------------
(* Lock and seqlock records of every outcome: task 1 inside a syscall,     *)
(* lock 0x500, seqlock 0x700                                               *)

\* SyncInfo values: writer and reader that succeeded (0b101, 0b001), writer
\* and reader try-locks that failed (0b110, 0b010)
SyncInfos == {5, 1, 6, 2}

NextSync ==
    \/ CtxtSyscallEnter(1, 100)
    \/ CtxtSyscallExit(1, 100)
    \/ \E i \in SyncInfos : SyncGenLock(1, i, 1280)
    \/ \E i \in SyncInfos : SyncGenUnlock(1, i, 1280)
    \/ \E i \in SyncInfos : SyncSeqLock(1, i, 1792)
    \/ \E i \in SyncInfos : SyncSeqUnlock(1, i, 1792)

SpecSync == Init /\ [][NextSync]_vars

\* the current unit of task p has no reader begin recorded for the seqlock
NoReaderBegin(p, lock) ==
    /\ HasCur(RT, p)
    /\ tran_of(CurUnit(RT, p).trans_r, lock).begin = Nil

\* C13: a seqlock reader release for an id on which the unit has no prior
\* reader begin does not abort the analysis.
C13_ReaderReleaseWithoutBeginContinues ==
    [][(NoReaderBegin(1, 1792) /\ SyncSeqUnlock(1, 1, 1792)) => ~fatal']_vars

\* the lock maps and transaction maps of every unit
SyncMaps ==
    [u \in Units |-> <<UnitAt(u).locks_r, UnitAt(u).locks_w,
                       UnitAt(u).trans_r, UnitAt(u).trans_w>>]

\* C15: a lock record with try=1 and succeed=0 changes no lock map and no
\* transaction map and does not abort the analysis.
C15_FailedTryLockIgnored ==
    [][\A i \in {6, 2} :
          (HasCur(RT, 1) /\ (SyncGenLock(1, i, 1280) \/ SyncSeqLock(1, i, 1792)))
              => (~fatal' /\ SyncMaps' = SyncMaps)]_vars

---------------------------------------------------------------------------
(* Accesses and the call stack: task 1 inside a syscall calls function 10; *)
(* instruction 11 belongs to function 10, instruction 20 to function 0     *)

NextStack ==
    \/ CtxtSyscallEnter(1, 100)
    \/ CtxtSyscallExit(1, 100)
    \/ ExecFuncEnter(1, 10, 4096)
    \/ ExecFuncExit(1, 10, 4096)
    \/ \E i \in {11, 20} : MemRead(1, i, 512, 1)
    \/ \E i \in {11, 20} : MemWrite(1, i, 512, 1)

SpecStack == Init /\ [][NextStack]_vars

\* the current unit of task p runs a function other than the one that
\* holds the instruction
OffStack(p, inst) == HasCur(RT, p) /\ ~InstOnStack(RT, p, inst)

\* C14: a MEM_READ or MEM_WRITE of an instruction whose function is not on
\* top of the call stack does not abort the analysis and the access is
\* processed: it gets its item.
C14_OffStackAccessProcessed ==
    [][\A i \in {11, 20} :
          (OffStack(1, i) /\ (MemRead(1, i, 512, 1) \/ MemWrite(1, i, 512, 1)))
              => (~fatal' /\ AccessesOf(1)' = AccessesOf(1) + 1)]_vars

---------------------------------------------------------------------------
(* Registering a work twice *)

\* C16: registering a fork-slot for a hash that has a pending slot is
\* fatal; registering it when the earlier slot was consumed by a context
\* enter or removed by a cancel is accepted and makes the slot pending
\* again, whether or not the earlier callback unit has exited.
C16_DoubleRegistration ==
    [][(HasCur(RT, 1) /\ AsyncWorkRegister(1, 1792, 4096)) =>
          IF PendingFork THEN fatal'
          ELSE ~fatal' /\ 1792 \in DOMAIN slots_fork' /\ PendingFork']_vars

\* the work is registered again while the unit that runs the earlier
\* registration's callback has not exited
C16_Witness ==
    /\ ~fatal
    /\ ItemCount("ForkRegister") = 2
    /\ 1792 \in DOMAIN slots_fork
    /\ \E u \in Units : UnitAt(u).fork_from # NoSlot /\ ~UnitAt(u).exited

---------------------------------------------------------------------------
(* The drivers of the analysis and the files they leave: process() has     *)
(* returned or raised, then the driver writes into the result directory    *)

\* runtime.process() is over: it raised, or it consumed the ledger
Finished == fatal \/ nrec = n

\* "except Exception": an assertion of a handler or of the closing checks
Failure == ~EndChecks

\* the state of the analysis is left as it is by the writing of the files
Saved(files) ==
    /\ Finished
    /\ result = {}
    /\ result' = files
    /\ UNCHANGED <<tasks, links, forks, slots_fork, joins, slots_join,
                   slots_queue, slots_order, mem_info_heap, mem_info_pcpu,
                   cells, races, cache_hb, count, n, nunit, fatal, nrec, an,
                   lockmap>>

\* the files written under one console path: the path itself, path-error
\* and path-racer
Files(path, suffixes) == {[path |-> path, suffix |-> x] : x \in suffixes}

\* fuzz_check.py ValidatorWorker._analyze
ValidatorWorker_analyze ==
    Saved(Files("console", IF Failure THEN {"-error", ""} ELSE {"-racer"}))

\* exec.py TestExec._run_analyze
TestExec_run_analyze ==
    Saved(Files("console", (IF Failure THEN {"-error"} ELSE {})
                               \cup {"", "-racer"}))

\* dart_app.py rerun_analysis: the first free name console.<i>
rerun_analysis ==
    Saved(Files("console.0", (IF Failure THEN {"-error"} ELSE {})
                                 \cup {"", "-racer"}))

NextResult ==
    \/ \E p \in Ptids : CtxtSyscallEnter(p, 100)
    \/ \E p \in Ptids : CtxtSyscallExit(p, 100)
    \/ ExecFuncEnter(1, 10, 4096)
    \/ ExecFuncExit(1, 10, 4096)
    \/ ValidatorWorker_analyze
    \/ TestExec_run_analyze
    \/ rerun_analysis

SpecResult == InitCtxt /\ [][NextResult]_vars

\* what the result directory holds of the transcript, the error file and
\* the race file
Written == {f.suffix : f \in result}

\* C17: after a failed analysis the result directory holds console-error
\* and console and no console-racer; after a successful one it holds
\* console and console-racer.
C17_ResultFiles ==
    result # {} =>
        IF Failure
        THEN {"-error", ""} \subseteq Written /\ "-racer" \notin Written
        ELSE {"", "-racer"} \subseteq Written

---------------------------------------------------------------------------
(* Cycles of the HB graph: task 1 arrives at wait 999 and registers work   *)
(* 0x700, task 2 runs the work and then enters as notifier of the wait,    *)
(* task 3 writes 0x400 and task 2 reads it                                 *)

NextLoop ==
    \/ CtxtSyscallEnter(1, 100)
    \/ EventWaitArrive(1, 999, 2304, 0)
    \/ AsyncWorkRegister(1, 1792, 4096)
    \/ CtxtWorkEnter(2, 1792, 4096)
    \/ CtxtWorkExit(2, 1792, 4096)
    \/ EventWaitNotifyEnter(2, 999, 2304)
    \/ MemRead(2, 31, 1024, 1)
    \/ CtxtSyscallEnter(3, 100)
    \/ MemWrite(3, 30, 1024, 1)

SpecLoop == InitLoop /\ [][NextLoop]_vars

\* no edge made by link closes a cycle: its ends differ and its destination
\* does not reach its source
Acyclic ==
    \A i \in 1..Len(links) :
        /\ links[i].src # links[i].dst
        /\ ~GraphHB(links[i].dst, links[i].src)

\* the query _check_race would make for an access of task p against a
\* recorded access of another task meets its own key on the stack:
\* RuntimeError('LOOP IN HAPPENS-BEFORE')
LoopRaised ==
    \E p \in DOMAIN tasks, a \in ItemPoints :
        /\ HasCur(RT, p)
        /\ a.ptid # p
        /\ ItemAt(a).kind \in {"MemRead", "MemWrite"}
        /\ happens_before(RT, a, step(CurPoint(RT, p))).loop

\* C18: as long as no assertion has failed, the HB graph is acyclic and no
\* happens_before query raises the loop error.
C18_HBAcyclic == ~fatal => (Acyclic /\ ~LoopRaised)

---------------------------------------------------------------------------
(* The memo of happens_before against the query made afresh *)

\* _happens_before called with an empty hist on the edges of the state
hb_uncached(src, dst) == happens_before_rec(RT, src, dst, EmptyMap, {})

\* C19: every entry of cache_hb equals what happens_before computes for
\* the pair without a memo on the edges of the current state.
C19_MemoMatchesUncached ==
    \A key \in DOMAIN cache_hb :
        cache_hb[key] = hb_uncached(key[1], key[2]).res

\* C20: happens_before evaluated with an empty memo returns true exactly
\* when dst is reachable from src along program order inside a unit and
\* the linked edges of every kind.
C20_HBIsReachability ==
    \A a \in ItemPoints, b \in ItemPoints :
        /\ ~hb_uncached(a, b).loop
        /\ hb_uncached(a, b).res <=> GraphHB(a, b)

---------------------------------------------------------------------------
(* Comparing a new access with the last stored access of each peer *)

\* _check_race(src, dst, addr, rw) appends a race
RaceHolds(rt, src, dst, rw) ==
    LET r == check_race(rt, src, dst, 0, rw)
    IN ~r.err /\ Len(r.races) = Len(rt.races) + 1

\* the access a write by the current unit of task p is stored as
WriterAccess(rt, p, inst) ==
    VizMemAccess(inst, CurPoint(rt, p),
                 lockset_w(CurUnit(rt, p)), transet_w(CurUnit(rt, p)))

\* for every peer of ptid in dict d, a race of the new access with any stored
\* access of the peer is a race with the peer's last stored access
LastStandsForAll(rt, d, ptid, access, rw) ==
    \A i \in 1..Len(d) :
        d[i].ptid # ptid =>
            \A j \in 1..Len(d[i].accs) :
                RaceHolds(rt, d[i].accs[j], access, rw)
                    => RaceHolds(rt, Last(d[i].accs), access, rw)

\* C21: when a write to 0x200 is checked, the race predicate holds between
\* the new access and the last stored write of a peer task whenever it holds
\* between the new access and any stored write of that peer.
C21_LastStandsForAll ==
    [][\A p \in Ptids :
          (MemWrite(p, 20, 512, 1) /\ ~fatal' /\ 512 \in DOMAIN cells)
              => LastStandsForAll(Tick(RT, p), cells[512].writers, p,
                                  WriterAccess(Tick(RT, p), p, 20), FALSE)]_vars

---------------------------------------------------------------------------
(* Consumers of a fork-slot *)

\* the slot a ForkCancel item was made for
CancelledSlots ==
    {i \in 1..Len(forks) :
        \E q \in ItemPoints : /\ ItemAt(q).kind = "ForkCancel"
                              /\ ItemAt(q).hval = forks[i].hval
                              /\ ItemAt(q).point = forks[i].point}

OneConsumer ==
    /\ \A h \in DOMAIN slots_fork : forks[slots_fork[h]].users = <<>>
    /\ \A i \in 1..Len(forks) : Len(forks[i].users) <= 1
    /\ \A i \in CancelledSlots : forks[i].users = <<>>

ConsumedOnEnter ==
    CtxtWorkEnter(2, 1792, 4096) =>
        IF 1792 \in DOMAIN slots_fork
        THEN ~fatal' => /\ 1792 \notin DOMAIN slots_fork'
                        /\ Len(forks'[slots_fork[1792]].users) = 1
        ELSE fatal'

\* C22: a fork-slot in the global table has no consumer, no slot has more
\* than one consumer and a cancelled slot has none; an accepted context
\* enter for a hash removes its slot from the table and records one
\* consumer, and a context enter for a hash that has no slot in the table
\* is fatal.
C22_OneConsumerPerSlot == []OneConsumer /\ [][ConsumedOnEnter]_vars

\* work 0x700 was registered and cancelled, registered again and consumed
\* by a context enter
C22_Witness ==
    /\ ~fatal
    /\ CancelledSlots # {}
    /\ \E i \in 1..Len(forks) : Len(forks[i].users) = 1
    /\ 1792 \notin DOMAIN slots_fork

---------------------------------------------------------------------------
(* Notifiers of one join-slot: task 1 waits on 0x3e7 inside a syscall,     *)
(* notifier units run on tasks 2 and 3, any of the three passes            *)

Notifiers == {2, 3}

NextNotify ==
    \/ CtxtSyscallEnter(1, 100)
    \/ CtxtSyscallExit(1, 100)
    \/ EventWaitArrive(1, 999, 2304, 0)
    \/ \E p \in Notifiers : EventWaitNotifyEnter(p, 999, 2304)
    \/ \E p \in Notifiers : EventWaitNotifyExit(p, 999, 2304)
    \/ \E p \in {1} \cup Notifiers : EventWaitPass(p, 999, 2304)

SpecNotify == Init /\ [][NextNotify]_vars

Edge(src, dst, kind) ==
    \E i \in 1..Len(links) : links[i] = [src |-> src, dst |-> dst, kind |-> kind]

\* the JOIN edges that end at a point
JoinsInto(point) ==
    {i \in 1..Len(links) : links[i].kind = "JOIN" /\ links[i].dst = point}

\* C23: every notifier unit that entered for a join-slot has a FORK edge
\* from the slot's arrive point to its initial point and a JOIN edge from
\* its initial point to the step point after the arrive point; the step
\* point has as many incoming JOIN edges as notifiers have entered, and the
\* slot is in the global table as long as it has not been passed.
C23_NotifierEdges ==
    /\ \A id \in 1..Len(joins) :
          /\ \A i \in 1..Len(joins[id].users) :
                /\ joins[id].users[i].clk = 0
                /\ Edge(joins[id].point, joins[id].users[i], "FORK")
                /\ Edge(joins[id].users[i], step(joins[id].point), "JOIN")
          /\ Cardinality(JoinsInto(step(joins[id].point)))
                = Len(joins[id].users)
    /\ 999 \in DOMAIN slots_join
          <=> ItemCount("JoinArrive") > ItemCount("JoinPass")

\* three notifier units have entered for one slot, on two tasks, and the
\* slot has not been passed
C23_Witness ==
    /\ ~fatal
    /\ 999 \in DOMAIN slots_join
    /\ Len(joins[slots_join[999]].users) = 3
    /\ \E i, j \in 1..3 : joins[slots_join[999]].users[i].ptid
                             # joins[slots_join[999]].users[j].ptid

---------------------------------------------------------------------------
(* Passing a join-slot that notifiers on several tasks have entered *)

\* notifier units of the pending slot of hval have entered on two tasks
MixedNotifiers(hval) ==
    /\ hval \in DOMAIN slots_join
    /\ \E i, j \in 1..Len(joins[slots_join[hval]].users) :
          joins[slots_join[hval]].users[i].ptid
              # joins[slots_join[hval]].users[j].ptid

\* the current unit of task p arrived at the pending slot of hval, or
\* entered as one of its notifiers
ArriverOf(p, hval) ==
    HasCur(RT, p) /\ SameUnit(CurPoint(RT, p), joins[slots_join[hval]].point)
NotifierOf(p, hval) ==
    /\ HasCur(RT, p)
    /\ \E i \in 1..Len(joins[slots_join[hval]].users) :
          SameUnit(CurPoint(RT, p), joins[slots_join[hval]].users[i])

\* C24: once notifier units of slot 0x3e7 have entered on two different
\* tasks, a pass event for the slot issued by the arriver or by any of
\* those notifier units is accepted and removes the slot from the global
\* join table.
C24_PassAfterMixedNotifiers ==
    [][\A p \in {1} \cup Notifiers :
          (/\ MixedNotifiers(999)
           /\ ArriverOf(p, 999) \/ NotifierOf(p, 999)
           /\ EventWaitPass(p, 999, 2304))
              => ~fatal' /\ 999 \notin DOMAIN slots_join']_vars

---------------------------------------------------------------------------
(* Two edges between one pair of points: task 1 registers work 0x700       *)
(* inside a syscall and the work runs on task 1 or on task 2               *)

NextLink ==
    \/ CtxtSyscallEnter(1, 100)
    \/ CtxtSyscallExit(1, 100)
    \/ ExecFuncEnter(1, 10, 4096)
    \/ AsyncWorkRegister(1, 1792, 4096)
    \/ \E p \in Ptids : CtxtWorkEnter(p, 1792, 4096)
    \/ \E p \in Ptids : CtxtWorkExit(p, 1792, 4096)

SpecLink == Init /\ [][NextLink]_vars

\* the pending slot of hval was registered by the very last event of the
\* live unit of task p
JustRegistered(p, hval) ==
    /\ HasCur(RT, p)
    /\ tasks[p].hold = -1
    /\ hval \in DOMAIN slots_fork
    /\ forks[slots_fork[hval]].point = CurPoint(RT, p)

\* C25: when the callback context of a fork-slot is entered on the task
\* that registered it as the very next event, the enter is accepted and
\* both an EMBED and a FORK edge are recorded from the register point to
\* the initial point of the new unit.
C25_EdgesOfTwoKinds ==
    [][(JustRegistered(1, 1792) /\ CtxtWorkEnter(1, 1792, 4096))
          => /\ ~fatal'
             /\ \A k \in {"EMBED", "FORK"} :
                   [src |-> CurPoint(RT, 1),
                    dst |-> VizPoint(1, tasks[1].nseq, 0),
                    kind |-> k] \in SeqToSet(links')]_vars

---------------------------------------------------------------------------
(* Units of one task: syscalls entered while another is live, function 10  *)
(* called at 0x1000, the live unit moved to the background and back        *)

MaxEmbedRecords == 8
MaxEmbedUnits == 4

InitEmbed == StartWith(MaxEmbedRecords, MaxEmbedUnits)

NextEmbed ==
    \/ CtxtSyscallEnter(1, 100)
    \/ CtxtSyscallExit(1, 100)
    \/ ExecFuncEnter(1, 10, 4096)
    \/ ExecFuncExit(1, 10, 4096)
    \/ ExecBackground(1)
    \/ ExecForeground(1)

SpecEmbed == InitEmbed /\ [][NextEmbed]_vars

\* the units that entered while another unit of their task was live
Embedded == {u \in Units : UnitAt(u).embed_from # Nil}

InitialPoint(u) == VizPoint(u[1], u[2], 0)
\* the point of the last item of an exited unit
TerminalPoint(u) == VizPoint(u[1], u[2], UnitAt(u).clk)

\* the EMBED edges that leave the terminal point of unit u
BackEdges(u) ==
    {i \in 1..Len(links) :
        links[i].kind = "EMBED" /\ links[i].src = TerminalPoint(u)}

\* the backward EMBED edge of an exited embedded unit ends in its host
\* after the point the unit was embedded at
BackwardEdge(u) ==
    /\ Cardinality(BackEdges(u)) = 1
    /\ \A i \in BackEdges(u) :
          /\ SameUnit(links[i].dst, UnitAt(u).embed_from)
          /\ links[i].dst.clk > UnitAt(u).embed_from.clk

ForwardFromHostPoint ==
    \A u \in Embedded :
        /\ ItemAt(step(UnitAt(u).embed_from)).kind = "Step"
        /\ Edge(UnitAt(u).embed_from, InitialPoint(u), "EMBED")
        /\ ~Edge(step(UnitAt(u).embed_from), InitialPoint(u), "EMBED")
        /\ UnitAt(u).exited => BackwardEdge(u)

\* the backward edge ends at the host's point at the time of the exit
BackwardToCurrent ==
    (HasCur(RT, 1) /\ <<1, CurSeq(tasks[1])>> \in Embedded
        /\ CtxtSyscallExit(1, 100) /\ ~fatal')
       => [src |-> VizPoint(1, CurSeq(tasks[1]), CurUnit(RT, 1).clk + 1),
           dst |-> CurPoint(RT, 1)',
           kind |-> "EMBED"] \in SeqToSet(links')

---------------------------------------------------------------------------
(* The edge from the last exited unit of a task *)

\* positions in the serialized trace of the first and the last item of a unit
RunGcnt(u) == UnitAt(u).children[1].gcnt
EndGcnt(u) == Last(UnitAt(u).children).gcnt

\* the units of the task of u that had exited when u entered
ExitedBeforeEnter(u) ==
    {v \in Units : /\ v[1] = u[1]
                   /\ UnitAt(v).exited
                   /\ EndGcnt(v) < RunGcnt(u)}

\* the one that exited last
LastExited(u) ==
    CHOOSE v \in ExitedBeforeEnter(u) :
        \A w \in ExitedBeforeEnter(u) : EndGcnt(w) <= EndGcnt(v)

\* the FIFO edges that end at the initial point of unit u
FifoInto(u) ==
    {i \in 1..Len(links) :
        links[i].kind = "FIFO" /\ links[i].dst = InitialPoint(u)}

\* a FIFO edge ends at the initial point of a unit or nowhere
FifoEdgesEnterUnits ==
    \A i \in 1..Len(links) :
        links[i].kind = "FIFO" => \E u \in Units : links[i].dst = InitialPoint(u)

\* the one FIFO edge of u leaves the terminal point of the unit of its task
\* that exited last before u entered
FifoFromLastExited(u) ==
    /\ Cardinality(FifoInto(u)) = 1
    /\ \A i \in FifoInto(u) : links[i].src = TerminalPoint(LastExited(u))

\* C27 as stated: a unit has a FIFO edge exactly when it entered with no
\* unit live on its task and a unit of the task had exited before; an
\* embedded unit has none.
C27_FifoOnlyOnEmptyStack ==
    /\ FifoEdgesEnterUnits
    /\ \A u \in Units :
          IF u \notin Embedded /\ ExitedBeforeEnter(u) # {}
          THEN FifoFromLastExited(u)
          ELSE FifoInto(u) = {}

\* C27, amended: a unit has a FIFO edge exactly when a unit of its task had
\* exited before it entered, whether or not another unit of the task was
\* live at the enter; the edge runs from the terminal point of the unit
\* that exited last to the initial point of the new unit.
C27_FifoFromLastExited ==
    /\ FifoEdgesEnterUnits
    /\ \A u \in Units :
          IF ExitedBeforeEnter(u) # {}
          THEN FifoFromLastExited(u)
          ELSE FifoInto(u) = {}

\* a unit entered on an empty stack after two units had exited, and an
\* embedded unit entered after a unit had exited
C27_Witness ==
    /\ ~fatal
    /\ \E u \in Units \ Embedded : Cardinality(ExitedBeforeEnter(u)) = 2
    /\ \E u \in Embedded : FifoInto(u) # {}

---------------------------------------------------------------------------
(* Program order of one task *)

\* the points of unit u that hold an item
PointsOf(u) == {q \in ItemPoints : q.ptid = u[1] /\ q.seq = u[2]}

\* happens_before(p, q) returns True
Ordered(p, q) ==
    LET r == happens_before(RT, p, q) IN ~r.loop /\ r.res

\* C28: for two units of one task such that the first exited before the
\* second entered, happens_before holds from every point of the first to
\* every point of the second, also when units were embedded or moved to
\* the background and back in between.
C28_ProgramOrder ==
    \A u2 \in Units : \A u1 \in ExitedBeforeEnter(u2) :
        \A p \in PointsOf(u1), q \in PointsOf(u2) : Ordered(p, q)

\* a unit exited, a second unit ran with a unit embedded in it and exited,
\* and a fourth unit entered on the empty stack
C28_Witness ==
    /\ ~fatal
    /\ \E u2 \in Units \ Embedded :
          /\ Cardinality(ExitedBeforeEnter(u2)) = 3
          /\ ExitedBeforeEnter(u2) \cap Embedded # {}

---------------------------------------------------------------------------
(* Objects deposited at 0x300 and consumed, by two tasks inside syscalls *)

ObjVals == {1, 2}

NextOrder ==
    \/ \E p \in Ptids : CtxtSyscallEnter(p, 100)
    \/ \E p \in Ptids : CtxtSyscallExit(p, 100)
    \/ \E p \in Ptids, v \in ObjVals : OrderObjDeposit(p, 768, v)
    \/ \E p \in Ptids : OrderObjConsume(p, 768)

SpecOrder == Init /\ [][NextOrder]_vars

\* the points of the deposits and of the consumes at addr
Deposits(addr) ==
    {q \in ItemPoints : ItemAt(q).kind = "OrderDeposit" /\ ItemAt(q).hval = addr}
Consumes(addr) ==
    {q \in ItemPoints : ItemAt(q).kind = "OrderConsume" /\ ItemAt(q).hval = addr}

\* the deposits at addr handled before the item at point c, and the last
\* of them
DepositsBefore(addr, c) ==
    {d \in Deposits(addr) : ItemAt(d).gcnt < ItemAt(c).gcnt}
LastDeposit(addr, c) ==
    CHOOSE d \in DepositsBefore(addr, c) :
        \A e \in DepositsBefore(addr, c) : ItemAt(e).gcnt <= ItemAt(d).gcnt

OrderEdges == {i \in 1..Len(links) : links[i].kind = "ORDER"}

\* every consume has one ORDER edge, from the last deposit before it, and
\* there are no other ORDER edges; the table holds the slot of the last
\* deposit from the first deposit on
OrderEdgesFromLastDeposit(addr) ==
    /\ \A c \in Consumes(addr) :
          /\ DepositsBefore(addr, c) # {}
          /\ \A i \in OrderEdges :
                links[i].dst = c => links[i].src = LastDeposit(addr, c)
          /\ Cardinality({i \in OrderEdges : links[i].dst = c}) = 1
    /\ \A i \in OrderEdges : links[i].dst \in Consumes(addr)
    /\ addr \in DOMAIN slots_order <=> Deposits(addr) # {}
    /\ \A d \in Deposits(addr) :
          (\A e \in Deposits(addr) : ItemAt(e).gcnt <= ItemAt(d).gcnt)
              => slots_order[addr].point = d

\* a consume at an address with no slot is fatal
ConsumeNeedsDeposit(addr) ==
    \A p \in Ptids :
        (addr \notin DOMAIN slots_order /\ OrderObjConsume(p, addr)) => fatal'

\* C29: every ORDER_OBJ_CONSUME at 0x300 has exactly one ORDER edge, from
\* the point of the most recent ORDER_OBJ_DEPOSIT at 0x300 to the consume
\* point; a later deposit replaces the slot and leaves the edges of earlier
\* consumes in place, a consume leaves the slot in the table, and a consume
\* with no earlier deposit is fatal.
C29_OrderEdges ==
    []OrderEdgesFromLastDeposit(768) /\ [][ConsumeNeedsDeposit(768)]_vars

\* two consumes of one deposit, then a second deposit and a consume of it
C29_Witness ==
    /\ ~fatal
    /\ \E c1, c2, c3 \in Consumes(768) :
          /\ c1 # c2
          /\ LastDeposit(768, c1) = LastDeposit(768, c2)
          /\ LastDeposit(768, c3) # LastDeposit(768, c1)
          /\ ItemAt(c3).gcnt > ItemAt(c1).gcnt

---------------------------------------------------------------------------
(* Locksets of ExecAnalyzer when a callback runs on the task that holds a  *)
(* lock: task 1 in a syscall calls function 10, registers work 0x700,      *)
(* takes lock 0x500 and writes 0x200 with instruction 11                   *)

NextAnaLock ==
    \/ AnaCtxtSyscallEnter(1, 100)
    \/ AnaCtxtSyscallExit(1, 100)
    \/ AnaExecFuncEnter(1, 10)
    \/ AnaAsyncWorkRegister(1, 1792, 4096)
    \/ AnaCtxtWorkEnter(1, 1792, 4096)
    \/ AnaCtxtWorkExit(1, 1792, 4096)
    \/ AnaSyncGenLock(1, 5, 1280)
    \/ AnaSyncGenUnlock(1, 5, 1280)
    \/ AnaMemWrite(1, 11, 512, 1)

SpecAnaLock == Init /\ [][NextAnaLock]_vars

\* the unit of task p is inside a context and has handled no record since
\* it entered
JustEntered(p) ==
    /\ p \in DOMAIN an.tasks
    /\ an.tasks[p].unit.ctxt # -1
    /\ an.tasks[p].unit.clk = 0

\* the access of task p stored last at addr
LastWriteOf(a, p, addr) ==
    Last(a.cells[addr].writers[KeyIdx(a.cells[addr].writers, p)].accs)

\* C30: the lockset snapshot of an access holds only locks the accessing
\* unit acquired itself: the first record of a unit, a write to 0x200, is
\* stored with an empty lockset, also when the unit entered while another
\* unit of its task held lock 0x500.
C30_OwnLocksOnly ==
    [][(JustEntered(1) /\ AnaMemWrite(1, 11, 512, 1) /\ ~fatal')
          => LastWriteOf(an', 1, 512).sync_locks = {}]_vars

---------------------------------------------------------------------------
(* The transaction set stored with a read *)

\* the seqlock ids on which the unit of point p has begun a reader section
\* that it has not ended before p
OpenReaderSections(p) == {t \in {1792} : Held(p, t, FALSE, "SEQ")}

\* C31: the transaction set stored with a read of 0x600 holds exactly the
\* seqlock ids on which the reading unit has an open reader section, so a
\* read made after SYNC_SEQ_UNLOCK carries no id and is not suppressed
\* against a write made under the seqlock's writer mode.
C31_ReadCarriesOpenSections ==
    \A x \in DOMAIN cells : \A r \in Reads(x) :
        r.sync_trans = OpenReaderSections(r.point)

---------------------------------------------------------------------------
(* Nesting of generic and RCU locks: task 1 inside a syscall, lock 0x500 *)

NextRcu ==
    \/ CtxtSyscallEnter(1, 100)
    \/ CtxtSyscallExit(1, 100)
    \/ \E i \in LockInfos : SyncGenLock(1, i, 1280)
    \/ \E i \in LockInfos : SyncGenUnlock(1, i, 1280)
    \/ \E i \in LockInfos : SyncRcuLock(1, i, 1280)
    \/ \E i \in LockInfos : SyncRcuUnlock(1, i, 1280)

SpecRcu == Init /\ [][NextRcu]_vars

\* how often the current unit of task p holds the lock in the mode of info
DepthOf(p, info, lock) ==
    IF is_rw(info) THEN depth_of(CurUnit(RT, p).locks_w, lock)
    ELSE depth_of(CurUnit(RT, p).locks_r, lock)

\* C32: a generic acquire of a lock the unit holds in the same mode and a
\* generic release of a lock it does not hold in that mode end the run; an
\* RCU reader-side acquire is accepted at any depth; an RCU release at depth
\* 0 ends the run; an RCU writer-side acquire of a lock the unit holds in
\* writer mode ends the run.
C32_LockDepthRules ==
    [][HasCur(RT, 1) =>
          /\ \A i \in LockInfos :
                 /\ (SyncGenLock(1, i, 1280) /\ DepthOf(1, i, 1280) # 0)
                        => fatal'
                 /\ (SyncGenUnlock(1, i, 1280) /\ DepthOf(1, i, 1280) = 0)
                        => fatal'
                 /\ (SyncRcuUnlock(1, i, 1280) /\ DepthOf(1, i, 1280) = 0)
                        => fatal'
          /\ SyncRcuLock(1, 1, 1280) => ~fatal'
          /\ (SyncRcuLock(1, 5, 1280) /\ DepthOf(1, 5, 1280) # 0)
                 => fatal']_vars

---------------------------------------------------------------------------
(* The lock of an RCU callback: callback 0x1000 registered under hash      *)
(* 0x700 by a syscall of task 1, run by task 1 or task 2                   *)

NextAnaRcu ==
    \/ \E p \in Ptids : AnaCtxtSyscallEnter(p, 100)
    \/ \E p \in Ptids : AnaCtxtSyscallExit(p, 100)
    \/ AnaExecFuncEnter(1, 10)
    \/ AnaAsyncRcuRegister(1, 1792, 4096)
    \/ \E p \in Ptids : AnaCtxtRcuEnter(p, 1792, 4096)
    \/ \E p \in Ptids : AnaCtxtRcuExit(p, 1792, 4096)

SpecAnaRcu == Init /\ [][NextAnaRcu]_vars

\* task p of the analyzer is running the RCU callback
InRcuUnit(p) == p \in DOMAIN an.tasks /\ an.tasks[p].unit.ctxt = 1792

\* C33: while a task runs a unit of kind RCU, lock id 1 is in its reader
\* lockset and not in its writer lockset, from the context enter on.
C33_RcuUnitHoldsReaderLock ==
    \A p \in Ptids :
        InRcuUnit(p) =>
            /\ DART_LOCK_ID_RCU \in DOMAIN an.tasks[p].locks_r
            /\ DART_LOCK_ID_RCU \notin DOMAIN an.tasks[p].locks_w

---------------------------------------------------------------------------
(* Accesses to stack and PERCPU memory: two tasks map, unmap and access    *)
(* the byte at 0x200                                                       *)

FilterKinds == {"STACK", "PERCPU"}

NextFilter ==
    \/ \E p \in Ptids : CtxtSyscallEnter(p, 100)
    \/ \E p \in Ptids, k \in FilterKinds : MemAlloc(p, k, 512, 1)
    \/ \E p \in Ptids, k \in FilterKinds : MemFree(p, k, 512)
    \/ \E p \in Ptids : MemWrite(p, 20, 512, 1)
    \/ \E p \in Ptids : MemRead(p, 21, 512, 1)

SpecFilter == Init /\ [][NextFilter]_vars

\* the address is mapped in the stack-memory map of the current unit of
\* task p or in the PERCPU map
MappedFor(p, addr) ==
    \/ addr \in DOMAIN CurUnit(RT, p).mem_local_info
    \/ addr \in DOMAIN mem_info_pcpu

\* the accesses stored for the address, over both dicts of its cell
StoredAt(addr) ==
    IF addr \in DOMAIN cells
    THEN Accesses(cells[addr].readers) \cup Accesses(cells[addr].writers)
    ELSE {}

\* an access of task p to 0x200 is handled
Access(p) == MemWrite(p, 20, 512, 1) \/ MemRead(p, 21, 512, 1)

\* the handled access leaves cells and races as they were
Dropped(p) == ~fatal' /\ cells' = cells /\ races' = races

\* the handled access is stored at the point of its record
Stored(p) ==
    \E acc \in StoredAt(512)' :
        /\ acc \notin StoredAt(512)
        /\ acc.point = VizPoint(p, CurSeq(tasks[p]), CurUnit(RT, p).clk + 1)

\* C34: an access to a byte mapped in the accessing unit's own stack-memory
\* map or in the PERCPU map creates no cell, stores no access and reports no
\* race; an access to a byte mapped in neither is stored, also when the byte
\* is mapped in the stack-memory map of another unit.
C34_MappedBytesDropped ==
    [][\A p \in Ptids :
          (Access(p) /\ HasCur(RT, p)) =>
              IF MappedFor(p, 512) THEN Dropped(p) ELSE Stored(p)]_vars

\* an access of one task was stored although the byte was mapped in the
\* stack of the other task's unit, and the access of a task that has the
\* byte on its own stack left no trace in the cell
C34_Witness ==
    \E p \in Ptids, q \in Ptids :
        /\ p # q /\ HasCur(RT, p) /\ HasCur(RT, q)
        /\ 512 \in DOMAIN CurUnit(RT, q).mem_local_info
        /\ \E acc \in StoredAt(512) :
               /\ acc.point.ptid = p
               /\ \E m \in ItemPoints :
                      /\ SameUnit(m, CurPoint(RT, q))
                      /\ ItemAt(m).kind = "MemAlloc"
                      /\ ItemAt(m).gcnt < ItemAt(acc.point).gcnt
        /\ \E w \in ItemPoints :
               /\ w.ptid = q
               /\ ItemAt(w).kind \in {"MemRead", "MemWrite"}
               /\ \A acc \in StoredAt(512) : acc.point # w

---------------------------------------------------------------------------
(* Accesses to a heap byte that is freed and allocated again: two tasks    *)
(* allocate, free and write the byte at 0x400                              *)

NextRealloc ==
    \/ \E p \in Ptids : CtxtSyscallEnter(p, 100)
    \/ \E p \in Ptids : MemAlloc(p, "HEAP", 1024, 1)
    \/ \E p \in Ptids : MemFree(p, "HEAP", 1024)
    \/ \E p \in Ptids : MemWrite(p, 20, 1024, 1)

SpecRealloc == Init /\ [][NextRealloc]_vars

\* between the records of the accesses a and b the address was freed and
\* later allocated again
FreedBetween(addr, a, b) ==
    \E f \in ItemPoints, m \in ItemPoints :
        /\ ItemAt(f).kind = "MemFree" /\ ItemAt(f).hval = addr
        /\ ItemAt(m).kind = "MemAlloc" /\ ItemAt(m).hval = addr
        /\ ItemAt(a.point).gcnt < ItemAt(f).gcnt
        /\ ItemAt(f).gcnt < ItemAt(m).gcnt
        /\ ItemAt(m).gcnt < ItemAt(b.point).gcnt

\* C35: no reported race joins an access made before 0x400 was freed with
\* an access made after 0x400 was allocated again.
C35_FreeDiscardsHistory ==
    \A r \in RaceSet : r.addr = 1024 => ~FreedBetween(1024, r.src, r.dst)

---------------------------------------------------------------------------
(* Memory repositories: task 1 inside a syscall allocates and frees        *)
(* regions of 0, 1 or 2 bytes at 0x200 and 0x201 in every repository       *)

\* length of the ledgers explored for regions
MaxRegionRecords == 5

RegionKinds == {"STACK", "HEAP", "PERCPU"}
RegionAddrs == {512, 513}
RegionSizes == {0, 1, 2}

InitRegion == StartWith(MaxRegionRecords, MaxUnits)

NextRegion ==
    \/ CtxtSyscallEnter(1, 100)
    \/ \E k \in RegionKinds, a \in RegionAddrs, s \in RegionSizes :
           MemAlloc(1, k, a, s)
    \/ \E k \in RegionKinds, a \in RegionAddrs : MemFree(1, k, a)

SpecRegion == InitRegion /\ [][NextRegion]_vars

\* every repository: the stack-memory map of each unit, HEAP and PERCPU
Repos ==
    {UnitAt(u).mem_local_info : u \in Units}
        \cup {mem_info_heap, mem_info_pcpu}

\* every mapped byte belongs to a region whose bytes are all mapped to it
WholeRegions(repo) ==
    \A a \in DOMAIN repo :
        /\ a \in MemRange(repo[a].addr, repo[a].size)
        /\ \A b \in MemRange(repo[a].addr, repo[a].size) :
               b \in DOMAIN repo /\ repo[b] = repo[a]

\* the repository of a kind as task 1 sees it
Repo(k) == RepoOf(RT, 1, k)

\* the last record of task 1 allocated a region of the kind at the address
JustAllocated(k, a) ==
    /\ ItemAt(CurPoint(RT, 1)).kind = "MemAlloc"
    /\ ItemAt(CurPoint(RT, 1)).hval = a
    /\ ItemAt(CurPoint(RT, 1)).info = <<k>>

\* the repository without the region allocated by the last record
BeforeAlloc(k) ==
    [x \in {y \in DOMAIN Repo(k) : Repo(k)[y].site_alloc # CurPoint(RT, 1)}
        |-> Repo(k)[x]]

\* an alloc over a mapped byte and a free of an address that is not the
\* base of a live region end the run; a free that follows the alloc of its
\* region is accepted and gives back the repository as it was
AllocFreeRules ==
    HasCur(RT, 1) =>
        \A k \in RegionKinds, a \in RegionAddrs :
            /\ \A s \in RegionSizes :
                   (MemAlloc(1, k, a, s)
                        /\ MemRange(a, s) \cap DOMAIN Repo(k) # {}) => fatal'
            /\ (MemFree(1, k, a)
                    /\ ~(a \in DOMAIN Repo(k) /\ Repo(k)[a].addr = a)
                    /\ ~JustAllocated(k, a)) => fatal'
            /\ (MemFree(1, k, a) /\ JustAllocated(k, a))
                   => (~fatal' /\ Repo(k)' = BeforeAlloc(k))

\* C36: every repository is a disjoint union of whole live regions; an
\* alloc overlapping a mapped byte is fatal, a free of an address that is
\* not the base of a live region is fatal, and alloc(addr, size) followed by
\* free(addr) restores the repository for every size, 0 included.
C36_WholeRegions ==
    [](\A repo \in Repos : WholeRegions(repo)) /\ [][AllocFreeRules]_vars

---------------------------------------------------------------------------
(* The clock of a unit and the number of its items *)

\* the clock of the unit is the index of its last item
ClockCounts(u) == UnitAt(u).clk = Len(UnitAt(u).children) - 1

\* C37: after every processed record the clk of every unit is the number of
\* items recorded in the unit minus 1, also for a unit that got a step item
\* for an embedded unit, a unit that has exited and a unit held in the
\* background; so the point of a unit's last item is the unit's snapshot
\* and the items of a unit have the distinct points 0 .. clk.
C37_ClockCountsItems ==
    \A u \in Units :
        /\ ClockCounts(u)
        /\ {q.clk : q \in {x \in ItemPoints : x.ptid = u[1] /\ x.seq = u[2]}}
               = 0..UnitAt(u).clk

\* a unit holding a step item is held in the background after the unit
\* embedded in it has exited, and has recorded items of its own since
C37_Witness ==
    \E u \in Units, e \in Units :
        /\ tasks[u[1]].hold = u[2]
        /\ \E i \in 1..Len(UnitAt(u).children) :
               /\ UnitAt(u).children[i].kind = "Step"
               /\ i < Len(UnitAt(u).children)
        /\ UnitAt(e).exited
        /\ UnitAt(e).embed_from # Nil

---------------------------------------------------------------------------
(* Background and foreground: callback 0x1000, registered under hash 0x700 *)
(* by a syscall of task 1, pre-empts the syscall and is put in the         *)
(* background and brought back                                             *)

NextAnaBg ==
    \/ AnaCtxtSyscallEnter(1, 100)
    \/ AnaCtxtSyscallExit(1, 100)
    \/ AnaExecFuncEnter(1, 10)
    \/ AnaExecFuncExit(1, 10)
    \/ AnaAsyncWorkRegister(1, 1792, 4096)
    \/ AnaCtxtWorkEnter(1, 1792, 4096)
    \/ AnaCtxtWorkExit(1, 1792, 4096)
    \/ AnaExecBackground(1, 1792)
    \/ AnaExecForeground(1, 1792)

SpecAnaBg == Init /\ [][NextAnaBg]_vars

\* the unit of the callback is held in the background: the slot keeps it in
\* place of the host it pre-empted
HeldUnit(hval) ==
    /\ hval \in DOMAIN an.async_slots
    /\ an.async_slots[hval].host # <<>>
    /\ an.async_slots[hval].host[1].ctxt = hval

\* a record that enters or leaves a context of task 1, or puts its unit in
\* the background
SchedulingOf1 ==
    \/ AnaCtxtSyscallEnter(1, 100) \/ AnaCtxtSyscallExit(1, 100)
    \/ AnaCtxtWorkEnter(1, 1792, 4096) \/ AnaCtxtWorkExit(1, 1792, 4096)
    \/ AnaExecBackground(1, 1792)

\* C38: while a unit of task 1 is held in the background, a context enter,
\* a context exit and a second EXEC_BACKGROUND on the task end the run, the
\* records in between leave the held unit as it is, and EXEC_FOREGROUND
\* makes it the current unit of the task again, unchanged.
C38_BackgroundForeground ==
    [][HeldUnit(1792) =>
          /\ SchedulingOf1 => fatal'
          /\ HeldUnit(1792)' =>
                 an'.async_slots[1792].host = an.async_slots[1792].host
          /\ AnaExecForeground(1, 1792) =>
                 /\ ~fatal'
                 /\ an'.tasks[1].unit = an.async_slots[1792].host[1]]_vars

---------------------------------------------------------------------------
(* A callback that pre-empts a live unit: tasks 1 and 2 run syscalls,      *)
(* register callback 0x1000 under hash 0x700 and enter and leave it        *)

NextAnaSteal ==
    \/ \E p \in Ptids : AnaCtxtSyscallEnter(p, 100)
    \/ \E p \in Ptids : AnaAsyncWorkRegister(p, 1792, 4096)
    \/ \E p \in Ptids : AnaCtxtWorkEnter(p, 1792, 4096)
    \/ \E p \in Ptids : AnaCtxtWorkExit(p, 1792, 4096)

SpecAnaSteal == Init /\ [][NextAnaSteal]_vars

\* task p runs the callback as its second unit and no unit of p has exited:
\* the callback pre-empted the live first unit of p
Preempting(p) ==
    /\ p \in DOMAIN an.tasks
    /\ an.tasks[p].unit.ctxt = 1792
    /\ an.tasks[p].unit.seq = 1
    /\ an.tasks[p].last_unit = <<>>

\* the pre-empted unit, which the callback's unit got as its dependency on
\* its own task
HostOf(p) ==
    LET deps == an.tasks[p].unit.deps
    IN deps[CHOOSE i \in 1..Len(deps) : deps[i].ptid = p]

\* seq, clk, ctxt and dependencies of a unit
Essence(unit) == <<unit.ptid, unit.seq, unit.clk, unit.ctxt, unit.deps>>

\* C39: when the context exit of a callback that pre-empted the live unit H
\* of its task is accepted, the task's unit is H again, with the seq, clk,
\* ctxt and dependencies H had when it was pre-empted, whatever the other
\* task did in between.
C39_HostRestored ==
    [][\A p \in Ptids :
          (Preempting(p) /\ AnaCtxtWorkExit(p, 1792, 4096) /\ ~fatal')
              => Essence(an'.tasks[p].unit) = Essence(HostOf(p))]_vars

---------------------------------------------------------------------------
(* The lock map on its own: any sequence of add_lock_r, add_lock_w,        *)
(* del_lock_r and del_lock_w calls on one VizLockMap / LockMap object      *)

MaxLockDepth == 3
MapLocks == {1280, 1281}

\* LockMap.add_lock_r / add_lock_w
LockMapAdd(rw, lock) ==
    /\ depth_of(IF rw THEN lockmap.locks_w ELSE lockmap.locks_r, lock)
           < MaxLockDepth
    /\ lockmap' =
           IF rw
           THEN [lockmap EXCEPT !.locks_w = add_lock(@, lock),
                                !.ret = depth_of(lockmap.locks_w, lock)]
           ELSE [lockmap EXCEPT !.locks_r = add_lock(@, lock),
                                !.ret = depth_of(lockmap.locks_r, lock)]
    /\ UNCHANGED <<tasks, links, forks, slots_fork, joins, slots_join,
                   slots_queue, slots_order, mem_info_heap, mem_info_pcpu,
                   cells, races, cache_hb, count, n, nunit, fatal, nrec, an,
                   result>>

\* LockMap.del_lock_r / del_lock_w
LockMapDel(rw, lock) ==
    /\ lockmap' =
           IF rw
           THEN [lockmap EXCEPT !.locks_w = del_lock(@, lock),
                                !.ret = depth_of(lockmap.locks_w, lock)]
           ELSE [lockmap EXCEPT !.locks_r = del_lock(@, lock),
                                !.ret = depth_of(lockmap.locks_r, lock)]
    /\ UNCHANGED <<tasks, links, forks, slots_fork, joins, slots_join,
                   slots_queue, slots_order, mem_info_heap, mem_info_pcpu,
                   cells, races, cache_hb, count, n, nunit, fatal, nrec, an,
                   result>>

NextLockMap ==
    \/ \E rw \in BOOLEAN, lock \in MapLocks : LockMapAdd(rw, lock)
    \/ \E rw \in BOOLEAN, lock \in MapLocks : LockMapDel(rw, lock)

SpecLockMap == Init /\ [][NextLockMap]_vars

\* the submap of one mode
Submap(m, rw) == IF rw THEN m.locks_w ELSE m.locks_r

\* every key of both submaps has a depth of at least 1
KeysAreHeld ==
    \A rw \in BOOLEAN : \A k \in DOMAIN Submap(lockmap, rw) :
        Submap(lockmap, rw)[k] >= 1

\* add_lock followed by del_lock of the same lock gives the submap back
AddThenDel ==
    \A rw \in BOOLEAN, lock \in MapLocks :
        del_lock(add_lock(Submap(lockmap, rw), lock), lock)
            = Submap(lockmap, rw)

\* lockset_w is the writer keys, lockset_r the keys of both submaps
Locksets ==
    /\ lockset_w(lockmap) = {k \in MapLocks : k \in DOMAIN lockmap.locks_w}
    /\ lockset_r(lockmap) = {k \in MapLocks : k \in DOMAIN lockmap.locks_r
                                               \/ k \in DOMAIN lockmap.locks_w}

\* what one call does to the submap it is made on and what it returns
AddDelRules ==
    \A rw \in BOOLEAN, lock \in MapLocks :
        LET old == Submap(lockmap, rw)
            new == Submap(lockmap', rw)
            had == lock \in DOMAIN old
        IN /\ LockMapAdd(rw, lock) =>
                 /\ lockmap'.ret = (IF had THEN old[lock] ELSE 0)
                 /\ lock \in DOMAIN new
                 /\ new[lock] = lockmap'.ret + 1
                 /\ \A k \in MapLocks \ {lock} :
                        /\ (k \in DOMAIN new) = (k \in DOMAIN old)
                        /\ k \in DOMAIN old => new[k] = old[k]
                 /\ Submap(lockmap', ~rw) = Submap(lockmap, ~rw)
           /\ LockMapDel(rw, lock) =>
                 /\ lockmap'.ret = (IF had THEN old[lock] ELSE 0)
                 /\ (lock \in DOMAIN new) = (lockmap'.ret > 1)
                 /\ lock \in DOMAIN new => new[lock] = lockmap'.ret - 1
                 /\ \A k \in MapLocks \ {lock} :
                        /\ (k \in DOMAIN new) = (k \in DOMAIN old)
                        /\ k \in DOMAIN old => new[k] = old[k]
                 /\ Submap(lockmap', ~rw) = Submap(lockmap, ~rw)

\* C40: after any sequence of add and del calls on a lock map each submap
\* holds exactly the locks whose depth is at least 1 (a del at depth 1
\* removes the key, a del of an absent lock returns 0 and leaves no entry),
\* add followed by del of the same lock restores the map, add and del return
\* the depth before the call, lockset_w is the set of writer keys and
\* lockset_r the union of reader and writer keys.
C40_LockMapAlgebra ==
    [](KeysAreHeld /\ AddThenDel /\ Locksets) /\ [][AddDelRules]_vars

\* a lock held twice as reader and once as writer beside another writer
\* lock, the last call having returned 0
C40_Witness ==
    /\ lockmap.ret = 0
    /\ DOMAIN lockmap.locks_r = {1280}
    /\ lockmap.locks_r[1280] = 2
    /\ DOMAIN lockmap.locks_w = {1280, 1281}

===========================================================================
